---- MODULE Spec2Model ----
(***************************************************************************)
(* Auckland Transport integration: the realtime departure coordinator of   *)
(* custom_components/auckland_transport/sensor.py.                         *)
(*                                                                         *)
(* Instants are whole seconds counted from midnight of day 0 (the code's   *)
(* datetime values; microseconds are not modelled).  A time of day is the  *)
(* number of seconds since midnight (the code's datetime.time values,      *)
(* which compare in that order).  A "HH:MM:SS" string is the record of its *)
(* three numbers, so that parsing and formatting are the arithmetic the    *)
(* code performs (int(), // 24, % 24, strftime) and not the identity.      *)
(* Fields the coordinator only copies (arrival_time, trip_headsign,        *)
(* stop_headsign, route_id) are left out of the trip records.              *)
(***************************************************************************)
EXTENDS Integers, Sequences, FiniteSets, TLC

VARIABLES
    now,                     \* the wall clock, datetime.now()
    disable_updates_start,   \* per monitor: self._disable_updates_start
    disable_updates_end,     \* per monitor: self._disable_updates_end
    data,                    \* per monitor: self.data, the published board
    pc,                      \* per monitor: where _async_update_data stands
    all_trips,               \* per monitor: the local all_trips of a cycle
    params,                  \* per monitor: the query parameters of the stoptrips request
    requests,                \* per monitor: requests issued by the latest tick
    held,                    \* per monitor: the board held when the latest tick began
    outcome,                 \* per monitor: how the latest tick ended
    succeeded,               \* per monitor: an Active tick succeeded before the latest tick
    gate,                    \* per monitor: the latest result of _is_update_disabled
    native_value,            \* per monitor: the sensor's _attr_native_value
    r_stage,                 \* reconciliation pipeline: the step reached
    r_result,                \* reconciliation pipeline: the stoptrips response body
    r_realtime,              \* reconciliation pipeline: realtime_details_batch
    r_trips,                 \* reconciliation pipeline: the trip dicts (mutated in place)
    r_merged,                \* reconciliation pipeline: the trip dicts as first passed in
    r_first,                 \* reconciliation pipeline: result of the first call
    r_second,                \* reconciliation pipeline: result of the second call
    departure_qty,           \* per monitor: the sensor's self._departure_qty
    attrs,                   \* per monitor: what extra_state_attributes last returned
    directory,               \* stops directory: the "data" list the stops endpoint serves
    stops_data,              \* stops directory: the stop coordinator's self._stops_data
    filtered_stops,          \* stops directory: what get_stops returned, per stop type
    stops_by_type,           \* stops directory: the config flow's self._stops_by_type
    transport_type,          \* stops directory: _transport_type of the sensor of each stop
    options,                 \* per monitor: the window strings of entry.options
    constructed,             \* per monitor: how RealtimeDataCoordinator.__init__ ended
    flow,                    \* config flow: the step shown, self._api_key, the form's errors
    entries,                 \* config flow: the config entries created so far
    validated,               \* config flow: the keys the stops endpoint has answered 200 to
    heap,                    \* board objects: the dicts a cycle built, by object
    data_ref,                \* board objects: the object self.data refers to
    cycle_ref,               \* board objects: the object the running cycle is building
    reader,                  \* board objects: the object a reader holds and what it read
    enrich,                  \* realtime batch: requested ids, response and returned mapping
    calc,                    \* delay arithmetic: a scheduled time, two delays, the two results
    update                   \* stops directory: the latest run of the stop coordinator's update

vars == <<now, disable_updates_start, disable_updates_end, data, pc, all_trips,
          params, requests, held, outcome, succeeded, gate, native_value,
          r_stage, r_result, r_realtime, r_trips, r_merged, r_first, r_second,
          departure_qty, attrs,
          directory, stops_data, filtered_stops, stops_by_type, transport_type,
          options, constructed, flow, entries, validated,
          heap, data_ref, cycle_ref, reader, enrich, calc, update>>

poll_vars == <<disable_updates_start, disable_updates_end, data, pc, all_trips,
               params, requests, held, outcome, succeeded, native_value>>

pipeline_vars == <<r_stage, r_result, r_realtime, r_trips, r_merged, r_first, r_second>>

sensor_vars == <<departure_qty, attrs>>

stop_vars == <<directory, stops_data, filtered_stops, stops_by_type, transport_type>>

config_vars == <<options, constructed>>

flow_vars == <<flow, entries, validated>>

swap_vars == <<heap, data_ref, cycle_ref, reader>>

\* The variables of the specifications of single functions and of the board
\* objects.
ext_vars == <<swap_vars, enrich, calc, update>>

\* The variables of the parts around the coordinator: the sensor's attributes,
\* the stops directory, the configured window strings, the config flow, and
\* the above.
aux_vars == <<sensor_vars, stop_vars, config_vars, flow_vars, ext_vars>>

----------------------------------------------------------------------------
(* Bounds *)

\* Longest stoptrips response body (number of trip records) drawn as an input.
MaxTrips == 2

\* Longest stops directory (number of stops) drawn as an input.
MaxStops == 2

\* The stop monitors: one RealtimeDataCoordinator with its sensor per config
\* entry.  m1 is the monitor that runs alone, m2 and m3 the two that run side
\* by side.
Monitors == {"m1", "m2", "m3"}
Solo == {"m1"}
Pair == {"m2", "m3"}

----------------------------------------------------------------------------
(* Time *)

Hms(h, m, s) == h * 3600 + m * 60 + s

\* datetime.now().time()
TimeOfDay(t) == t % 86400

\* datetime.now().date(), as the day number
DateOf(t) == t \div 86400

At(day, h, m, s) == day * 86400 + Hms(h, m, s)

----------------------------------------------------------------------------
(* The quiet-hours gate *)

is_update_disabled_inclusive_end(start, end, current_time) ==
    IF start > end
    THEN current_time >= start \/ current_time <= end
    ELSE start <= current_time /\ current_time <= end

is_update_disabled_no_wrap(start, end, current_time) ==
    start <= current_time /\ current_time < end

\* RealtimeDataCoordinator._is_update_disabled, on the two stored bounds and
\* the time of day it reads from the clock.
is_update_disabled(start, end, current_time) ==
    IF start > end
    THEN current_time >= start \/ current_time < end
    ELSE start <= current_time /\ current_time < end

GateUnset == [checked |-> FALSE, disabled |-> FALSE, at |-> 0, before |-> "none"]

\* What an evaluation of the gate leaves for the next one to see of it.
Earlier(g) == IF ~g.checked THEN "none" ELSE IF g.disabled THEN "quiet" ELSE "active"

GateResult_stored_mode(m) ==
    [checked |-> TRUE,
     disabled |-> \/ is_update_disabled(disable_updates_start[m],
                                        disable_updates_end[m],
                                        TimeOfDay(now))
                  \/ (gate[m].checked /\ gate[m].disabled),
     at |-> TimeOfDay(now),
     before |-> Earlier(gate[m])]

\* One evaluation of the gate by monitor m, remembered with the time it read
\* and with the result of the evaluation before it.
GateResult(m) ==
    [checked |-> TRUE,
     disabled |-> is_update_disabled(disable_updates_start[m],
                                     disable_updates_end[m],
                                     TimeOfDay(now)),
     at |-> TimeOfDay(now),
     before |-> Earlier(gate[m])]

----------------------------------------------------------------------------
(* Values of the JSON and dict fields.  k tells what the field holds:      *)
(* "absent" (the dict has no such key), "none" (None / null), or a value.  *)

NoStr == [k |-> "none", v |-> ""]
Str(s) == [k |-> "str", v |-> s]
AbsentStr == [k |-> "absent", v |-> ""]

NoInt == [k |-> "none", v |-> 0]
Num(n) == [k |-> "int", v |-> n]
AbsentInt == [k |-> "absent", v |-> 0]

\* A departure time string: absent, None, "HH:MM:SS" (k = "hms", the three
\* numbers int() reads), or text that does not split into three integers.
NoTime == [k |-> "none", h |-> 0, m |-> 0, s |-> 0]
BadTime == [k |-> "bad", h |-> 0, m |-> 0, s |-> 0]
AbsentTime == [k |-> "absent", h |-> 0, m |-> 0, s |-> 0]
T(h, m, s) == [k |-> "hms", h |-> h, m |-> m, s |-> s]

AbsentDt == [k |-> "absent", v |-> 0]
Dt(t) == [k |-> "dt", v |-> t]

\* Python truthiness of an optional string: neither None nor "".
Truthy(x) == x.k = "str" /\ x.v # ""

----------------------------------------------------------------------------
(* _extract_trips *)

\* The trip_data dict built for one record of the response.
TripData(rec) ==
    [trip_id |-> rec.trip_id,
     scheduled_departure_time |-> rec.departure_time,
     delay_seconds |-> AbsentInt,
     license_plate |-> AbsentStr,
     actual_departure_time |-> AbsentTime,
     actual_departure_datetime |-> AbsentDt]

extract_trips_drop_sparse(response_data) ==
    IF response_data.k # "data"
    THEN <<>>
    ELSE LET Complete(rec) == Truthy(rec.trip_id) /\ rec.departure_time.k # "none"
             kept == SelectSeq(response_data.data, Complete)
         IN  [i \in 1..Len(kept) |-> TripData(kept[i])]

\* RealtimeDataCoordinator._extract_trips: one trip dict per record of
\* response_data["data"], in order; nothing when there is no "data" key.
extract_trips(response_data) ==
    IF response_data.k # "data"
    THEN <<>>
    ELSE [i \in 1..Len(response_data.data) |-> TripData(response_data.data[i])]

trip_ids_of_every_trip(trips) == [i \in 1..Len(trips) |-> trips[i].trip_id.v]

\* trip_ids = [trip.get("trip_id") for trip in all_trips if trip.get("trip_id")]
trip_ids_of(trips) ==
    LET HasId(trip) == Truthy(trip.trip_id)
        with_id == SelectSeq(trips, HasId)
    IN  [i \in 1..Len(with_id) |-> with_id[i].trip_id.v]

----------------------------------------------------------------------------
(* The merge of the realtime batch into the trips *)

merge_realtime_first_entry(trips, batch) ==
    [i \in 1..Len(trips) |->
        IF DOMAIN batch # {}
        THEN LET id == CHOOSE x \in DOMAIN batch : TRUE
             IN  [trips[i] EXCEPT !.license_plate = batch[id].license_plate,
                                  !.delay_seconds = batch[id].delay_seconds]
        ELSE trips[i]]

\* for trip in all_trips: if trip_id and trip_id in realtime_details_batch:
\*     trip.update(realtime_details_batch[trip_id])
merge_realtime(trips, batch) ==
    [i \in 1..Len(trips) |->
        IF Truthy(trips[i].trip_id) /\ trips[i].trip_id.v \in DOMAIN batch
        THEN [trips[i] EXCEPT
                 !.license_plate = batch[trips[i].trip_id.v].license_plate,
                 !.delay_seconds = batch[trips[i].trip_id.v].delay_seconds]
        ELSE trips[i]]

----------------------------------------------------------------------------
(* _process_trips_with_delay *)

days_to_add_none(hour) == 0

\* days_to_add = hour // 24 when hour >= 24, else 0
days_to_add(hour) == IF hour >= 24 THEN hour \div 24 ELSE 0

\* hour = hour % 24 when hour >= 24
normal_hour(hour) == IF hour >= 24 THEN hour % 24 ELSE hour

\* The try block gets as far as a datetime: the string splits into three
\* integers and datetime(...) accepts them.
Parses(t) ==
    /\ t.k = "hms"
    /\ normal_hour(t.h) \in 0..23
    /\ t.m \in 0..59
    /\ t.s \in 0..59

\* scheduled_dt = datetime(now.year, now.month, now.day, hour, minute, second)
\*                + timedelta(days=days_to_add)
scheduled_dt(t, now_) ==
    At(DateOf(now_), normal_hour(t.h), t.m, t.s) + days_to_add(t.h) * 86400

delay_of_never_early(trip) ==
    IF trip.delay_seconds.k = "int" /\ trip.delay_seconds.v > 0
    THEN trip.delay_seconds.v ELSE 0

\* delay_seconds = trip.get("delay_seconds", 0) or 0
delay_of(trip) ==
    IF trip.delay_seconds.k = "int" THEN trip.delay_seconds.v ELSE 0

\* actual_dt = scheduled_dt + timedelta(seconds=delay_seconds)
actual_dt(trip, now_) ==
    scheduled_dt(trip.scheduled_departure_time, now_) + delay_of(trip)

\* dt.strftime("%H:%M:%S"): the time of day of an instant, its date dropped
strftime(t) == T((t % 86400) \div 3600, (t % 3600) \div 60, t % 60)

has_departed_inclusive(trip, now_) ==
    /\ actual_dt(trip, now_) <= now_
    /\ days_to_add(trip.scheduled_departure_time.h) = 0

\* if actual_dt < now and days_to_add == 0: continue
has_departed(trip, now_) ==
    /\ actual_dt(trip, now_) < now_
    /\ days_to_add(trip.scheduled_departure_time.h) = 0

\* The loop body reaches arrivals.append(trip).
Kept(trip, now_) ==
    /\ trip.scheduled_departure_time.k # "none"
    /\ Parses(trip.scheduled_departure_time)
    /\ ~has_departed(trip, now_)

\* The three assignments the loop makes to a trip it keeps.
Processed(trip, now_) ==
    [trip EXCEPT
        !.scheduled_departure_time =
            strftime(scheduled_dt(trip.scheduled_departure_time, now_)),
        !.actual_departure_time = strftime(actual_dt(trip, now_)),
        !.actual_departure_datetime = Dt(actual_dt(trip, now_))]

\* Where x goes in a sorted sequence of references: behind every element
\* whose key is not greater.
InsertPosition(sorted, x, key) ==
    Cardinality({j \in 1..Len(sorted) : key[sorted[j]] <= key[x]})

RECURSIVE SortFrom(_, _, _)
SortFrom(sorted, rest, key) ==
    IF rest = <<>>
    THEN sorted
    ELSE LET x == Head(rest)
             p == InsertPosition(sorted, x, key)
         IN  SortFrom(SubSeq(sorted, 1, p) \o <<x>> \o SubSeq(sorted, p + 1, Len(sorted)),
                      Tail(rest), key)

sort_arrivals_unsorted(refs, key) == refs

sort_arrivals_ties_reversed(refs, key) ==
    LET Rev(s) == [i \in 1..Len(s) |-> s[Len(s) + 1 - i]]
        neg == [i \in DOMAIN key |-> 0 - key[i]]
    IN  Rev(SortFrom(<<>>, refs, neg))

\* arrivals.sort(key=lambda x: x.get("actual_departure_datetime", datetime.max)):
\* a stable ascending sort of the references to the kept trips.
sort_arrivals(refs, key) == SortFrom(<<>>, refs, key)

process_trips_with_delay_error_aborts(trips, now_) ==
    LET idx == [i \in 1..Len(trips) |-> i]
        Fails(i) == /\ trips[i].scheduled_departure_time.k # "none"
                    /\ ~Parses(trips[i].scheduled_departure_time)
        IsKept(i) == Kept(trips[i], now_)
        after == [i \in 1..Len(trips) |->
                     IF IsKept(i) THEN Processed(trips[i], now_) ELSE trips[i]]
        key == [i \in 1..Len(trips) |-> after[i].actual_departure_datetime.v]
    IN  IF \E i \in 1..Len(trips) : Fails(i)
        THEN [trips |-> trips, arrivals |-> <<>>]
        ELSE [trips |-> after,
              arrivals |-> sort_arrivals(SelectSeq(idx, IsKept), key)]

\* RealtimeDataCoordinator._process_trips_with_delay.  The trips are dicts the
\* function changes in place, so the result carries them as they are left
\* (trips) beside the board, whose arrivals are references (indices) to them.
process_trips_with_delay(trips, now_) ==
    LET idx == [i \in 1..Len(trips) |-> i]
        IsKept(i) == Kept(trips[i], now_)
        after == [i \in 1..Len(trips) |->
                     IF IsKept(i) THEN Processed(trips[i], now_) ELSE trips[i]]
        key == [i \in 1..Len(trips) |-> after[i].actual_departure_datetime.v]
    IN  [trips |-> after,
         arrivals |-> sort_arrivals(SelectSeq(idx, IsKept), key)]

EmptyBoard == [arrivals |-> <<>>, next_departure |-> <<>>]

Board_next_before_sort(res) ==
    LET arrivals == [i \in 1..Len(res.arrivals) |-> res.trips[res.arrivals[i]]]
        refs == {res.arrivals[i] : i \in 1..Len(res.arrivals)}
    IN  [arrivals |-> arrivals,
         next_departure |->
             IF arrivals = <<>> THEN <<>>
             ELSE <<res.trips[CHOOSE i \in refs : \A j \in refs : i <= j]>>]

\* The returned dict {"arrivals": arrivals, "next_departure": next_departure},
\* read through its references; next_departure is <<>> for None.
Board(res) ==
    LET arrivals == [i \in 1..Len(res.arrivals) |-> res.trips[res.arrivals[i]]]
    IN  [arrivals |-> arrivals,
         next_departure |-> IF arrivals = <<>> THEN <<>> ELSE <<arrivals[1]>>]

----------------------------------------------------------------------------
(* The sensor's native value *)

\* _attr_native_value: a time string (k = "time"), another text, None, or
\* nothing yet because the sensor is not built (k = "no_sensor").
Text(s) == [k |-> "text", text |-> s, t |-> NoTime]
TimeText(t) == [k |-> "time", text |-> "", t |-> t]
NoValue == [k |-> "none", text |-> "", t |-> NoTime]
NoSensor == [k |-> "no_sensor", text |-> "", t |-> NoTime]

\* next_departure.get("actual_departure_time")
\*     or next_departure.get("scheduled_departure_time", "Unknown")
departure_text(next_departure) ==
    LET actual == next_departure.actual_departure_time
        scheduled == next_departure.scheduled_departure_time
    IN  IF actual.k \in {"hms", "bad"} THEN TimeText(actual)
        ELSE IF scheduled.k = "absent" THEN Text("Unknown")
        ELSE IF scheduled.k = "none" THEN NoValue
        ELSE TimeText(scheduled)

initial_native_value_unknown(coordinator_data) ==
    IF coordinator_data.next_departure # <<>>
    THEN departure_text(coordinator_data.next_departure[1])
    ELSE Text("Unknown")

\* AucklandTransportSensor.__init__: the initial value, from the data the
\* coordinator holds when the sensor is built.
initial_native_value(coordinator_data) ==
    IF coordinator_data.next_departure # <<>>
    THEN departure_text(coordinator_data.next_departure[1])
    ELSE Text("No upcoming departures")

handle_coordinator_update_scheduled(coordinator_data) ==
    IF coordinator_data.next_departure # <<>>
    THEN TimeText(coordinator_data.next_departure[1].scheduled_departure_time)
    ELSE Text("No upcoming departures")

\* AucklandTransportSensor._handle_coordinator_update
handle_coordinator_update(coordinator_data) ==
    IF coordinator_data.next_departure # <<>>
    THEN departure_text(coordinator_data.next_departure[1])
    ELSE Text("No upcoming departures")

\* What a finished refresh does to the sensor.  async_setup_entry awaits the
\* first refresh and builds the sensor after it; from then on the coordinator
\* calls the sensor's _handle_coordinator_update after every refresh.
sensor_after_refresh(current, coordinator_data) ==
    IF current = NoSensor
    THEN initial_native_value(coordinator_data)
    ELSE handle_coordinator_update(coordinator_data)

----------------------------------------------------------------------------
(* extra_state_attributes: the departure count and the numbered departures. *)
(* The keys departure_<idx>_... are the fields of the idx-th record of      *)
(* departures; a key the dict does not get is an absent field.  The stop's  *)
(* own attributes and the quiet-window attributes are left out.             *)

NoAttrs == [k |-> "unread", remaining_departures_for_today |-> 0, departures |-> <<>>]

\* The keys written for one arrival.
departure_attrs(arrival) ==
    [scheduled_time |-> arrival.scheduled_departure_time,
     actual_time |-> IF arrival.actual_departure_time.k = "absent"
                     THEN arrival.scheduled_departure_time
                     ELSE arrival.actual_departure_time,
     delay_in_seconds |-> IF arrival.delay_seconds.k = "int"
                          THEN arrival.delay_seconds ELSE AbsentInt,
     license_plate |-> IF Truthy(arrival.license_plate)
                       THEN arrival.license_plate ELSE AbsentStr,
     trip_id |-> arrival.trip_id]

RECURSIVE numbered_departures_late_break(_, _, _)
numbered_departures_late_break(arrivals, idx, qty) ==
    IF idx > Len(arrivals) THEN <<>>
    ELSE <<departure_attrs(arrivals[idx])>>
         \o (IF idx > qty THEN <<>>
             ELSE numbered_departures_late_break(arrivals, idx + 1, qty))

\* for idx, arrival in enumerate(arrivals, 1): ... if idx >= self._departure_qty: break
\* from the idx-th arrival on.
RECURSIVE numbered_departures(_, _, _)
numbered_departures(arrivals, idx, qty) ==
    IF idx > Len(arrivals) THEN <<>>
    ELSE <<departure_attrs(arrivals[idx])>>
         \o (IF idx >= qty THEN <<>>
             ELSE numbered_departures(arrivals, idx + 1, qty))

\* AucklandTransportSensor.extra_state_attributes
extra_state_attributes(coordinator_data, qty) ==
    LET arrivals == coordinator_data.arrivals
    IN  IF arrivals # <<>>
        THEN [k |-> "read",
              remaining_departures_for_today |-> Len(arrivals),
              departures |-> numbered_departures(arrivals, 1, qty)]
        ELSE [k |-> "read", remaining_departures_for_today |-> 0, departures |-> <<>>]

----------------------------------------------------------------------------
(* The stops directory and the three places that classify a stop by the    *)
(* length of its code.  A stop is the record of stop.get("id") and of the   *)
(* stop_code and stop_name of stop.get("attributes", {}); a code or a name  *)
(* is a string, whose length is Len.                                        *)

\* const.STOP_TYPES
STOP_TYPES == {"all", "train", "bus", "ferry"}

NotFetched == [k |-> "none", v |-> <<>>]
Fetched(stops) == [k |-> "list", v |-> stops]
NotCalled == [k |-> "none", v |-> <<>>]
Returned(value) == [k |-> "value", v |-> value]

sensor_transport_type_five_or_more(stop_data) ==
    IF ~Truthy(stop_data.stop_code) THEN "unknown"
    ELSE LET code_length == Len(stop_data.stop_code.v)
         IN  IF code_length = 3 THEN "train"
             ELSE IF code_length = 4 THEN "bus"
             ELSE IF code_length >= 5 THEN "ferry"
             ELSE "unknown"

\* AucklandTransportSensor.__init__: self._transport_type
sensor_transport_type(stop_data) ==
    IF ~Truthy(stop_data.stop_code) THEN "unknown"
    ELSE LET code_length == Len(stop_data.stop_code.v)
         IN  IF code_length = 3 THEN "train"
             ELSE IF code_length = 4 THEN "bus"
             ELSE IF code_length = 5 THEN "ferry"
             ELSE "unknown"

\* AucklandTransportDataUpdateCoordinator._fetch_stops_data, on the response
\* of the stops endpoint: [] when the status is not 200.
fetch_stops_data(response) == IF response.status_ok THEN response.data ELSE <<>>

get_stops_bus_by_five(cached, stop_type) ==
    IF cached.k = "none" \/ cached.v = <<>> THEN <<>>
    ELSE IF stop_type = "all" THEN cached.v
    ELSE LET Matches(stop) ==
                 /\ Truthy(stop.stop_code)
                 /\ \/ stop_type = "train" /\ Len(stop.stop_code.v) = 3
                    \/ stop_type = "bus" /\ Len(stop.stop_code.v) = 5
                    \/ stop_type = "ferry" /\ Len(stop.stop_code.v) = 4
         IN  SelectSeq(cached.v, Matches)

\* AucklandTransportDataUpdateCoordinator.get_stops, on self._stops_data as
\* it is after the refresh the method awaits when nothing is cached.
get_stops(cached, stop_type) ==
    IF cached.k = "none" \/ cached.v = <<>> THEN <<>>
    ELSE IF stop_type = "all" THEN cached.v
    ELSE LET Matches(stop) ==
                 /\ Truthy(stop.stop_code)
                 /\ \/ stop_type = "train" /\ Len(stop.stop_code.v) = 3
                    \/ stop_type = "bus" /\ Len(stop.stop_code.v) = 4
                    \/ stop_type = "ferry" /\ Len(stop.stop_code.v) = 5
         IN  SelectSeq(cached.v, Matches)

\* The (stop_id, stop_option) tuple of the config flow, stop_option being
\* f"{stop_name} ({stop_code})".
stop_option(stop) ==
    [stop_id |-> stop.id, stop_name |-> stop.stop_name, stop_code |-> stop.stop_code]

\* AucklandTransportConfigFlow._fetch_stops: {} when the status is not 200,
\* else the lists of options per stop type.
fetch_stops(response) ==
    IF ~response.status_ok THEN [t \in {} |-> <<>>]
    ELSE LET Listed(stop) ==
                 Truthy(stop.stop_code) /\ Truthy(stop.stop_name) /\ Truthy(stop.id)
             OfType(t, stop) ==
                 \/ t = "all"
                 \/ t = "train" /\ Len(stop.stop_code.v) = 3
                 \/ t = "bus" /\ Len(stop.stop_code.v) = 4
                 \/ t = "ferry" /\ Len(stop.stop_code.v) = 5
         IN  [t \in STOP_TYPES |->
                 LET Chosen(stop) == Listed(stop) /\ OfType(t, stop)
                     chosen == SelectSeq(response.data, Chosen)
                 IN  [i \in 1..Len(chosen) |-> stop_option(chosen[i])]]

\* current_stop_options = self._stops_by_type.get(self._stop_type, [])
current_stop_options(by_type, stop_type) ==
    IF stop_type \in DOMAIN by_type THEN by_type[stop_type] ELSE <<>>

----------------------------------------------------------------------------
(* _parse_time_string and the window of RealtimeDataCoordinator.__init__.   *)
(* A configured time string is the record of its shape and of the numbers   *)
(* written in it, so that parsing is the reading the code does of each      *)
(* shape: "H:M" (k = "hm"), "H:M:S" (k = "hms"), "H:M AM" or "H:M PM"        *)
(* (k = "ampm"), four digits "HHMM" (k = "military"), anything else          *)
(* (k = "junk").                                                            *)

Clock24(h, m) == [k |-> "hm", h |-> h, m |-> m, s |-> 0, pm |-> FALSE]
WithSeconds(h, m, sec) == [k |-> "hms", h |-> h, m |-> m, s |-> sec, pm |-> FALSE]
Clock12(h, m, pm) == [k |-> "ampm", h |-> h, m |-> m, s |-> 0, pm |-> pm]
Military(h, m) == [k |-> "military", h |-> h, m |-> m, s |-> 0, pm |-> FALSE]
Junk == [k |-> "junk", h |-> 0, m |-> 0, s |-> 0, pm |-> FALSE]

\* The default window of const.py.
DEFAULT_DISABLE_UPDATES_START == Clock24(0, 0)
DEFAULT_DISABLE_UPDATES_END == Clock24(4, 0)

ParseError == [ok |-> FALSE, time |-> 0]
Parsed(h, m) == [ok |-> TRUE, time |-> Hms(h, m, 0)]

\* RealtimeDataCoordinator._parse_time_string: the time of day it returns,
\* or the ValueError it raises.  A string of more than two ":" parts is cut
\* to its first two before anything is read; "%H:%M" takes hours 0..23,
\* "%I:%M %p" hours 1..12, and time(hour, minute) hours 0..23, each with
\* minutes 0..59.
parse_time_string(time_str) ==
    LET cut == IF time_str.k = "hms" THEN Clock24(time_str.h, time_str.m) ELSE time_str
    IN  IF cut.k = "hm"
        THEN IF cut.h \in 0..23 /\ cut.m \in 0..59 THEN Parsed(cut.h, cut.m) ELSE ParseError
        ELSE IF cut.k = "ampm"
        THEN IF cut.h \in 1..12 /\ cut.m \in 0..59
             THEN Parsed((cut.h % 12) + (IF cut.pm THEN 12 ELSE 0), cut.m)
             ELSE ParseError
        ELSE IF cut.k = "military"
        THEN IF cut.h \in 0..23 /\ cut.m \in 0..59 THEN Parsed(cut.h, cut.m) ELSE ParseError
        ELSE ParseError

configured_window_keeps_parsed_bound(start_str, end_str) ==
    LET start == parse_time_string(start_str)
        end == parse_time_string(end_str)
        default_start == parse_time_string(DEFAULT_DISABLE_UPDATES_START)
        default_end == parse_time_string(DEFAULT_DISABLE_UPDATES_END)
    IN  [raised |-> FALSE,
         start |-> IF start.ok THEN start.time ELSE default_start.time,
         end |-> IF end.ok THEN end.time ELSE default_end.time]

\* RealtimeDataCoordinator.__init__: the try block that parses the two
\* configured strings, and its except ValueError clause, which parses the
\* two defaults outside of any try.
configured_window(start_str, end_str) ==
    LET start == parse_time_string(start_str)
        end == parse_time_string(end_str)
        default_start == parse_time_string(DEFAULT_DISABLE_UPDATES_START)
        default_end == parse_time_string(DEFAULT_DISABLE_UPDATES_END)
    IN  IF start.ok /\ end.ok
        THEN [raised |-> FALSE, start |-> start.time, end |-> end.time]
        ELSE IF default_start.ok /\ default_end.ok
        THEN [raised |-> FALSE, start |-> default_start.time, end |-> default_end.time]
        ELSE [raised |-> TRUE, start |-> 0, end |-> 0]

----------------------------------------------------------------------------
(* The config flow.  flow is the flow object with the form it shows: step   *)
(* is the step_id of the form ("created" once async_create_entry returned,  *)
(* "failed" when a step raised), api_key is self._api_key, errors the       *)
(* errors["base"] of the form, attempt what the latest call of              *)
(* validate_api_key was made with and got.                                  *)

NoKey == [k |-> "none", v |-> ""]
NoAttempt == [made |-> FALSE, api_key |-> "", answer |-> "none"]

NoFlow == [step |-> "none", api_key |-> NoKey, stop_type |-> "all", errors |-> "",
           attempt |-> NoAttempt]

\* AucklandTransportConfigFlow.__init__
NewFlow == [NoFlow EXCEPT !.step = "init"]

\* How the stops endpoint can answer the validation call: a status, or an
\* exception of the client (aiohttp.ClientError).
ValidationAnswers == {"200", "401", "client_error"}

validate_api_key_any_answer(answer) == answer # "client_error"

\* validate_api_key: response.status == 200, False on aiohttp.ClientError
validate_api_key(answer) == answer = "200"

\* self._get_existing_api_keys(): the non-empty keys of the entries
existing_api_keys(config_entries) ==
    {entry.api_key : entry \in {x \in config_entries : x.api_key # ""}}

----------------------------------------------------------------------------
(* Inputs *)

\* Quiet-window bounds, at minute resolution: 00:00, 04:00, 04:01, 23:00.
WindowTimes == {Hms(0, 0, 0), Hms(4, 0, 0), Hms(4, 1, 0), Hms(23, 0, 0)}

\* Clock readings around those bounds (the clock has the seconds).
GateClock ==
    {At(1, 0, 0, 0), At(1, 3, 59, 59), At(1, 4, 0, 0), At(1, 4, 0, 30),
     At(1, 4, 1, 0), At(1, 12, 0, 0), At(1, 22, 59, 59), At(1, 23, 0, 0),
     At(1, 23, 59, 59)}

\* Records of a stoptrips response body.
RawTimes == {NoTime, T(7, 30, 0), T(8, 0, 0), T(25, 10, 0), BadTime}
RawIds == {NoStr, Str("A"), Str("B")}
RawRecords == [trip_id : RawIds, departure_time : RawTimes]

ResponseBodies(Records) ==
    {[k |-> "no_data", data |-> <<>>]}
    \cup {[k |-> "data", data |-> d] : d \in UNION {[1..n -> Records] : n \in 0..MaxTrips}}

\* realtime_details_batch values: trip id -> {license_plate, delay_seconds}.
RealtimeForA ==
    {[license_plate |-> Str("P1"), delay_seconds |-> Num(0 - 3600)],
     [license_plate |-> NoStr, delay_seconds |-> NoInt],
     [license_plate |-> NoStr, delay_seconds |-> Num(1800)]}
RealtimeForB == {[license_plate |-> Str("P2"), delay_seconds |-> Num(60)]}

RealtimeBatches ==
    LET EntriesOf(id) == IF id = "A" THEN RealtimeForA ELSE RealtimeForB
    IN  UNION {{f \in [ids -> RealtimeForA \cup RealtimeForB] :
                    \A id \in ids : f[id] \in EntriesOf(id)} : ids \in SUBSET {"A", "B"}}

ReconcileClock == {At(1, 1, 0, 0), At(1, 7, 0, 0), At(1, 7, 30, 0), At(1, 7, 45, 0)}

NoResult == [trips |-> <<>>, arrivals |-> <<>>]

\* The board objects: each cycle builds its dicts anew, so an object is what
\* one cycle built, the trip dicts of its all_trips with the arrivals list
\* that refers to them.  Three can be referred to at a time: by self.data, by
\* a reader, by the running cycle.
Objects == 0..2
NoRef == 0 - 1
NoReader == [ref |-> NoRef, saw |-> EmptyBoard]

NoEnrich == [stage |-> "off", trip_ids |-> <<>>,
             response |-> [k |-> "exception", status_ok |-> FALSE, entity |-> <<>>],
             results |-> <<>>]

NoCalc == [stage |-> "off", time |-> NoTime, d1 |-> AbsentInt, d2 |-> AbsentInt,
           first |-> <<>>, second |-> <<>>]

NoUpdate == [made |-> FALSE, count |-> 0, before |-> NotFetched, requests |-> 0,
             raised |-> FALSE, returned |-> <<>>]

NoParams == [date |-> 0, start_hour |-> 0, hour_range |-> 0]
NoRequests == [stoptrips |-> 0, tripupdates |-> 0]

----------------------------------------------------------------------------
(* Initial values of the parts a specification does not exercise *)

PollIdle ==
    /\ disable_updates_start = [m \in Monitors |-> Hms(0, 0, 0)]
    /\ disable_updates_end = [m \in Monitors |-> Hms(4, 0, 0)]
    /\ data = [m \in Monitors |-> EmptyBoard]
    /\ pc = [m \in Monitors |-> "idle"]
    /\ all_trips = [m \in Monitors |-> <<>>]
    /\ params = [m \in Monitors |-> NoParams]
    /\ requests = [m \in Monitors |-> NoRequests]
    /\ held = [m \in Monitors |-> EmptyBoard]
    /\ outcome = [m \in Monitors |-> "none"]
    /\ succeeded = [m \in Monitors |-> FALSE]
    /\ native_value = [m \in Monitors |-> NoSensor]

PipelineOff ==
    /\ r_stage = "off"
    /\ r_result = [k |-> "no_data", data |-> <<>>]
    /\ r_realtime = <<>>
    /\ r_trips = <<>>
    /\ r_merged = <<>>
    /\ r_first = NoResult
    /\ r_second = NoResult

SensorOff ==
    /\ departure_qty = [m \in Monitors |-> 1]
    /\ attrs = [m \in Monitors |-> NoAttrs]

StopsOff ==
    /\ directory = <<>>
    /\ stops_data = NotFetched
    /\ filtered_stops = NotCalled
    /\ stops_by_type = NotCalled
    /\ transport_type = NotCalled

\* A coordinator built on the default window.
ConfigOff ==
    /\ options = [m \in Monitors |->
                     [start |-> DEFAULT_DISABLE_UPDATES_START,
                      end |-> DEFAULT_DISABLE_UPDATES_END]]
    /\ constructed = [m \in Monitors |-> "ok"]

FlowOff ==
    /\ flow = NoFlow
    /\ entries = {}
    /\ validated = {}

\* No board object but the empty board of __init__, which self.data refers to.
SwapOff ==
    /\ heap = [o \in Objects |-> NoResult]
    /\ data_ref = 0
    /\ cycle_ref = NoRef
    /\ reader = NoReader

EnrichOff == enrich = NoEnrich

CalcOff == calc = NoCalc

UpdateOff == update = NoUpdate

ExtOff == SwapOff /\ EnrichOff /\ CalcOff /\ UpdateOff

AuxOff == SensorOff /\ StopsOff /\ ConfigOff /\ FlowOff /\ ExtOff

----------------------------------------------------------------------------
(* GateSpec: _is_update_disabled over every window and clock reading *)

GateInit ==
    /\ now \in GateClock
    /\ \E start \in WindowTimes : disable_updates_start = [m \in Monitors |-> start]
    /\ \E end \in WindowTimes : disable_updates_end = [m \in Monitors |-> end]
    /\ data = [m \in Monitors |-> EmptyBoard]
    /\ pc = [m \in Monitors |-> "idle"]
    /\ all_trips = [m \in Monitors |-> <<>>]
    /\ params = [m \in Monitors |-> NoParams]
    /\ requests = [m \in Monitors |-> NoRequests]
    /\ held = [m \in Monitors |-> EmptyBoard]
    /\ outcome = [m \in Monitors |-> "none"]
    /\ succeeded = [m \in Monitors |-> FALSE]
    /\ native_value = [m \in Monitors |-> NoSensor]
    /\ gate = [m \in Monitors |-> GateUnset]
    /\ PipelineOff
    /\ AuxOff

\* self._is_update_disabled() is called (by a tick, or by the sensor reading
\* its attributes).
GateCheck(m) ==
    /\ gate' = [gate EXCEPT ![m] = GateResult(m)]
    /\ UNCHANGED <<now, poll_vars, pipeline_vars, aux_vars>>

\* Time passes.
GateTime ==
    /\ \E t \in GateClock : t > now /\ now' = t
    /\ UNCHANGED <<poll_vars, gate, pipeline_vars, aux_vars>>

GateNext == (\E m \in Solo : GateCheck(m)) \/ GateTime

GateSpec == GateInit /\ [][GateNext]_vars

----------------------------------------------------------------------------
(* ReconcileSpec: extract, merge, reconcile, and reconcile again, on every *)
(* response body, realtime batch and clock reading of the input sets       *)

ReconcileInit ==
    /\ now \in ReconcileClock
    /\ PollIdle
    /\ gate = [m \in Monitors |-> GateUnset]
    /\ AuxOff
    /\ r_stage = "input"
    /\ r_result \in ResponseBodies(RawRecords)
    /\ r_realtime \in RealtimeBatches
    /\ r_trips = <<>>
    /\ r_merged = <<>>
    /\ r_first = NoResult
    /\ r_second = NoResult

\* all_trips = self._extract_trips(result)
Extract ==
    /\ r_stage = "input"
    /\ r_stage' = "extracted"
    /\ r_trips' = extract_trips(r_result)
    /\ UNCHANGED <<now, poll_vars, gate, aux_vars, r_result, r_realtime, r_merged, r_first, r_second>>

\* the loop that updates each trip with its realtime details
Merge ==
    /\ r_stage = "extracted"
    /\ r_stage' = "merged"
    /\ r_trips' = merge_realtime(r_trips, r_realtime)
    /\ UNCHANGED <<now, poll_vars, gate, aux_vars, r_result, r_realtime, r_merged, r_first, r_second>>

\* processed_data = self._process_trips_with_delay(all_trips)
Process ==
    /\ r_stage = "merged"
    /\ r_stage' = "processed"
    /\ r_merged' = r_trips
    /\ r_first' = process_trips_with_delay(r_trips, now)
    /\ r_trips' = r_first'.trips
    /\ UNCHANGED <<now, poll_vars, gate, aux_vars, r_result, r_realtime, r_second>>

\* _process_trips_with_delay applied once more to the same trip dicts
ProcessAgain ==
    /\ r_stage = "processed"
    /\ r_stage' = "reprocessed"
    /\ r_second' = process_trips_with_delay(r_trips, now)
    /\ r_trips' = r_second'.trips
    /\ UNCHANGED <<now, poll_vars, gate, aux_vars, r_result, r_realtime, r_merged, r_first>>

ReconcileNext == Extract \/ Merge \/ Process \/ ProcessAgain

ReconcileSpec == ReconcileInit /\ [][ReconcileNext]_vars

----------------------------------------------------------------------------
(* _fetch_realtime_trip_details_batch *)

\* An entity of the tripupdates response.  k = "bad" is an entity of another
\* shape than a JSON object (entity.get raises).  license_plate is absent
\* when there is no vehicle or no plate in it; delay is the top-level
\* trip_update["delay"]; arrival_delay is the delay of
\* trip_update["stop_time_update"]["arrival"], absent when there is no such
\* arrival and None when the arrival carries no delay.
Entity(id, has_trip_update, license_plate, delay, arrival_delay) ==
    [k |-> "dict", id |-> id, has_trip_update |-> has_trip_update,
     license_plate |-> license_plate, delay |-> delay, arrival_delay |-> arrival_delay]
BadEntity == [Entity(NoStr, FALSE, AbsentStr, AbsentInt, AbsentInt) EXCEPT !.k = "bad"]

realtime_details_nested_first(entity) ==
    [license_plate |->
        IF entity.license_plate.k = "str" THEN entity.license_plate ELSE NoStr,
     delay_seconds |->
        IF entity.arrival_delay.k = "int" THEN entity.arrival_delay
        ELSE IF entity.delay.k # "absent" THEN entity.delay
        ELSE NoInt]

\* the dict stored in results[trip_id]
realtime_details(entity) ==
    [license_plate |->
        IF entity.license_plate.k = "str" THEN entity.license_plate ELSE NoStr,
     delay_seconds |->
        IF entity.delay.k # "absent" THEN entity.delay
        ELSE IF entity.arrival_delay.k = "int" THEN entity.arrival_delay
        ELSE NoInt]

\* The loop over the entities: results filled entry by entry, a later entity
\* replacing an earlier one of the same id; an entity of unexpected shape
\* raises, which ends the loop with the entries made so far.
RECURSIVE parse_entities(_, _)
parse_entities(entities, results) ==
    IF entities = <<>> THEN results
    ELSE LET entity == Head(entities)
         IN  IF entity.k = "bad" THEN results
             ELSE IF Truthy(entity.id) /\ entity.has_trip_update
             THEN parse_entities(
                      Tail(entities),
                      [id \in DOMAIN results \cup {entity.id.v} |->
                          IF id = entity.id.v THEN realtime_details(entity)
                          ELSE results[id]])
             ELSE parse_entities(Tail(entities), results)

\* RealtimeDataCoordinator._fetch_realtime_trip_details_batch, on the
\* response to its one request: k = "ok" is status 200 with a JSON body,
\* status_ok says the body has status "OK" and a "response".
fetch_realtime_trip_details_batch(response) ==
    IF response.k = "ok" /\ response.status_ok
    THEN parse_entities(response.entity, <<>>)
    ELSE <<>>

----------------------------------------------------------------------------
(* Spec: the poll cycle of a stop monitor, _async_update_data *)

PollClock ==
    {At(1, 3, 59, 59), At(1, 4, 0, 0), At(1, 7, 0, 0), At(1, 7, 45, 0),
     At(1, 23, 0, 0), At(2, 1, 0, 0)}

\* Configured quiet windows: within a day, across midnight, and empty.
PollWindows ==
    {<<Hms(0, 0, 0), Hms(4, 0, 0)>>, <<Hms(23, 0, 0), Hms(4, 0, 0)>>,
     <<Hms(4, 0, 0), Hms(4, 0, 0)>>}

PollRecords ==
    {[trip_id |-> Str("A"), departure_time |-> T(8, 0, 0)],
     [trip_id |-> Str("B"), departure_time |-> T(7, 30, 0)],
     [trip_id |-> NoStr, departure_time |-> T(25, 10, 0)]}

\* How the stoptrips request can fail: a status other than 200, an exception
\* of the transport, a body response.json() cannot parse.
FailureKinds == {"status", "exception", "bad_json"}

TripUpdatesResponses ==
    {[k |-> kind, status_ok |-> FALSE, entity |-> <<>>] : kind \in {"status", "exception"}}
    \cup {[k |-> "ok", status_ok |-> FALSE, entity |-> <<>>]}
    \cup {[k |-> "ok", status_ok |-> TRUE, entity |-> e] :
            e \in {<<>>,
                   <<Entity(Str("A"), TRUE, Str("P1"), Num(0 - 3600), AbsentInt)>>,
                   <<Entity(Str("B"), TRUE, AbsentStr, AbsentInt, Num(1800))>>,
                   <<Entity(Str("A"), TRUE, AbsentStr, NoInt, Num(60)), BadEntity,
                     Entity(Str("B"), TRUE, Str("P2"), Num(60), AbsentInt)>>}}

\* What the stoptrips endpoint can answer with for the stop of monitor m:
\* every body of PollRecords for the monitor that runs alone; for the two side
\* by side, a stop where trip A calls and a stop where trip B calls.
StopTripsBodies(m) ==
    IF m \in Solo THEN ResponseBodies(PollRecords)
    ELSE LET trip == IF m = "m2"
                     THEN [trip_id |-> Str("A"), departure_time |-> T(8, 0, 0)]
                     ELSE [trip_id |-> Str("B"), departure_time |-> T(7, 30, 0)]
         IN  {[k |-> "no_data", data |-> <<>>], [k |-> "data", data |-> <<trip>>]}

Init ==
    /\ now \in PollClock
    /\ \E w \in PollWindows :
           /\ disable_updates_start = [m \in Monitors |-> w[1]]
           /\ disable_updates_end = [m \in Monitors |-> w[2]]
    /\ data = [m \in Monitors |-> EmptyBoard]
    /\ pc = [m \in Monitors |-> "idle"]
    /\ all_trips = [m \in Monitors |-> <<>>]
    /\ params = [m \in Monitors |-> NoParams]
    /\ requests = [m \in Monitors |-> NoRequests]
    /\ held = [m \in Monitors |-> EmptyBoard]
    /\ outcome = [m \in Monitors |-> "none"]
    /\ succeeded = [m \in Monitors |-> FALSE]
    /\ native_value = [m \in Monitors |-> NoSensor]
    /\ gate = [m \in Monitors |-> GateUnset]
    /\ PipelineOff
    /\ AuxOff

published_to_every_monitor(boards, m, board) == [x \in DOMAIN boards |-> board]

\* The board _async_update_data returns becomes the data of the coordinator
\* that ran it, an attribute of that instance.
published(boards, m, board) == [boards EXCEPT ![m] = board]

returned_when_disabled_empty(board) == EmptyBoard

\* return self.data
returned_when_disabled(board) == board

\* return {"arrivals": [], "next_departure": None}, in the else branch of the
\* status test and in the except clause
returned_on_failure(board) == EmptyBoard

\* The coordinator's timer fires: _async_update_data runs as far as its
\* first await.  In the quiet window it returns at once and the returned
\* board is published; otherwise it sends the stoptrips request.
Tick(m) ==
    /\ pc[m] = "idle"
    /\ gate' = [gate EXCEPT ![m] = GateResult(m)]
    /\ held' = [held EXCEPT ![m] = data[m]]
    /\ IF gate'[m].disabled
       THEN /\ data' = published(data, m, returned_when_disabled(data[m]))
            /\ native_value' = [native_value EXCEPT ![m] =
                                  sensor_after_refresh(native_value[m], data'[m])]
            /\ requests' = [requests EXCEPT ![m] = NoRequests]
            /\ outcome' = [outcome EXCEPT ![m] = "quiet"]
            /\ UNCHANGED <<pc, params>>
       ELSE /\ params' = [params EXCEPT ![m] =
                            [date |-> DateOf(now),
                             start_hour |-> TimeOfDay(now) \div 3600,
                             hour_range |-> 24]]
            /\ requests' = [requests EXCEPT ![m] = [stoptrips |-> 1, tripupdates |-> 0]]
            /\ pc' = [pc EXCEPT ![m] = "stoptrips"]
            /\ outcome' = [outcome EXCEPT ![m] = "running"]
            /\ UNCHANGED <<data, native_value>>
    /\ UNCHANGED <<now, disable_updates_start, disable_updates_end, all_trips,
                   succeeded, pipeline_vars, aux_vars>>

\* The stoptrips request fails: the method returns the empty board, which
\* is published.
StopTripsFails(m) ==
    /\ pc[m] = "stoptrips"
    /\ \E kind \in FailureKinds : outcome' = [outcome EXCEPT ![m] = kind]
    /\ data' = published(data, m, returned_on_failure(data[m]))
    /\ native_value' = [native_value EXCEPT ![m] =
                          sensor_after_refresh(native_value[m], data'[m])]
    /\ pc' = [pc EXCEPT ![m] = "idle"]
    /\ all_trips' = [all_trips EXCEPT ![m] = <<>>]
    /\ UNCHANGED <<now, disable_updates_start, disable_updates_end, params, requests,
                   held, succeeded, gate, pipeline_vars, aux_vars>>

\* The stoptrips request answers 200 with a body: the trips are extracted;
\* with trip ids the realtime request is sent, without any the trips are
\* reconciled and the board published.
StopTripsAnswers(m) ==
    /\ pc[m] = "stoptrips"
    /\ \E result \in StopTripsBodies(m) :
           LET trips == extract_trips(result)
           IN  IF trip_ids_of(trips) # <<>>
               THEN /\ all_trips' = [all_trips EXCEPT ![m] = trips]
                    /\ requests' = [requests EXCEPT ![m].tripupdates = 1]
                    /\ pc' = [pc EXCEPT ![m] = "tripupdates"]
                    /\ UNCHANGED <<data, native_value, outcome, succeeded>>
               ELSE /\ data' = published(data, m,
                                            Board(process_trips_with_delay(trips, now)))
                    /\ native_value' = [native_value EXCEPT ![m] =
                                          sensor_after_refresh(native_value[m], data'[m])]
                    /\ outcome' = [outcome EXCEPT ![m] = "ok"]
                    /\ succeeded' = [succeeded EXCEPT ![m] = TRUE]
                    /\ pc' = [pc EXCEPT ![m] = "idle"]
                    /\ UNCHANGED <<all_trips, requests>>
    /\ UNCHANGED <<now, disable_updates_start, disable_updates_end, params, held,
                   gate, pipeline_vars, aux_vars>>

\* The tripupdates request ends, one way or another: its details are merged
\* into the trips, the trips reconciled and the board published.
TripUpdatesEnds(m) ==
    /\ pc[m] = "tripupdates"
    /\ \E response \in TripUpdatesResponses :
           LET realtime_details_batch == fetch_realtime_trip_details_batch(response)
               trips == merge_realtime(all_trips[m], realtime_details_batch)
           IN  data' = published(data, m, Board(process_trips_with_delay(trips, now)))
    /\ native_value' = [native_value EXCEPT ![m] =
                          sensor_after_refresh(native_value[m], data'[m])]
    /\ outcome' = [outcome EXCEPT ![m] = "ok"]
    /\ succeeded' = [succeeded EXCEPT ![m] = TRUE]
    /\ pc' = [pc EXCEPT ![m] = "idle"]
    /\ all_trips' = [all_trips EXCEPT ![m] = <<>>]
    /\ UNCHANGED <<now, disable_updates_start, disable_updates_end, params, requests,
                   held, gate, pipeline_vars, aux_vars>>

\* Time passes, also while a request is in flight.
TimePasses ==
    /\ \E t \in PollClock : t > now /\ now' = t
    /\ UNCHANGED <<poll_vars, gate, pipeline_vars, aux_vars>>

Next ==
    \/ \E m \in Solo :
           Tick(m) \/ StopTripsFails(m) \/ StopTripsAnswers(m) \/ TripUpdatesEnds(m)
    \/ TimePasses

Spec == Init /\ [][Next]_vars

\* Two monitors side by side: two config entries, each with its own
\* RealtimeDataCoordinator built by async_setup_entry, polling on the one
\* event loop.  Their timers and the answers to their requests arrive in any
\* order.  The monitor of the first stop is quiet from 23:00 to 04:00, the
\* monitor of the second from 00:00 to 04:00.
TwoInit ==
    /\ now \in PollClock
    /\ disable_updates_start =
           [m \in Monitors |-> IF m = "m2" THEN Hms(23, 0, 0) ELSE Hms(0, 0, 0)]
    /\ disable_updates_end = [m \in Monitors |-> Hms(4, 0, 0)]
    /\ data = [m \in Monitors |-> EmptyBoard]
    /\ pc = [m \in Monitors |-> "idle"]
    /\ all_trips = [m \in Monitors |-> <<>>]
    /\ params = [m \in Monitors |-> NoParams]
    /\ requests = [m \in Monitors |-> NoRequests]
    /\ held = [m \in Monitors |-> EmptyBoard]
    /\ outcome = [m \in Monitors |-> "none"]
    /\ succeeded = [m \in Monitors |-> FALSE]
    /\ native_value = [m \in Monitors |-> NoSensor]
    /\ gate = [m \in Monitors |-> GateUnset]
    /\ PipelineOff
    /\ AuxOff

TwoNext ==
    \/ \E m \in Pair :
           Tick(m) \/ StopTripsFails(m) \/ StopTripsAnswers(m) \/ TripUpdatesEnds(m)
    \/ TimePasses

TwoSpec == TwoInit /\ [][TwoNext]_vars

----------------------------------------------------------------------------
(* SensorSpec: the sensor of a monitor, built on every board the            *)
(* coordinator can hold, reads its attributes                               *)

\* departure_qty as the options flow lets it be set: NumberSelector min=1, max=10
DepartureQtys == 1..10

SensorClock == {At(1, 7, 0, 0), At(1, 7, 45, 0)}

\* The boards _async_update_data can return.
SensorBoards(t) ==
    {EmptyBoard}
    \cup {Board(process_trips_with_delay(
                   merge_realtime(extract_trips(result),
                                  fetch_realtime_trip_details_batch(response)), t)) :
             result \in ResponseBodies(PollRecords), response \in TripUpdatesResponses}

SensorInit ==
    /\ now \in SensorClock
    /\ \E board \in SensorBoards(now) :
           /\ data = [m \in Monitors |-> board]
           /\ native_value = [m \in Monitors |-> initial_native_value(board)]
    /\ disable_updates_start = [m \in Monitors |-> Hms(0, 0, 0)]
    /\ disable_updates_end = [m \in Monitors |-> Hms(4, 0, 0)]
    /\ pc = [m \in Monitors |-> "idle"]
    /\ all_trips = [m \in Monitors |-> <<>>]
    /\ params = [m \in Monitors |-> NoParams]
    /\ requests = [m \in Monitors |-> NoRequests]
    /\ held = [m \in Monitors |-> EmptyBoard]
    /\ outcome = [m \in Monitors |-> "none"]
    /\ succeeded = [m \in Monitors |-> FALSE]
    /\ gate = [m \in Monitors |-> GateUnset]
    /\ PipelineOff
    /\ \E qty \in DepartureQtys : departure_qty = [m \in Monitors |-> qty]
    /\ attrs = [m \in Monitors |-> NoAttrs]
    /\ StopsOff
    /\ ConfigOff
    /\ FlowOff
    /\ ExtOff

\* The platform reads the sensor's extra_state_attributes.
ReadAttributes(m) ==
    /\ attrs' = [attrs EXCEPT ![m] = extra_state_attributes(data[m], departure_qty[m])]
    /\ UNCHANGED <<now, poll_vars, gate, pipeline_vars, departure_qty, stop_vars,
                   config_vars, flow_vars, ext_vars>>

SensorNext == \E m \in Solo : ReadAttributes(m)

SensorSpec == SensorInit /\ [][SensorNext]_vars

----------------------------------------------------------------------------
(* StopSpec: the stops directory as the stop coordinator caches and filters *)
(* it, as the config flow lists it, and as the sensors present it           *)

StopCodes ==
    {AbsentStr, NoStr, Str(""), Str("115"), Str("1150"), Str("11500"), Str("115000")}
StopNames == {AbsentStr, Str("Britomart")}
StopIds == {NoStr, Str("s1")}
Stops == [id : StopIds, stop_code : StopCodes, stop_name : StopNames]

StopInit ==
    /\ now = At(1, 7, 0, 0)
    /\ PollIdle
    /\ gate = [m \in Monitors |-> GateUnset]
    /\ PipelineOff
    /\ SensorOff
    /\ ConfigOff
    /\ FlowOff
    /\ ExtOff
    /\ directory \in UNION {[1..n -> Stops] : n \in 0..MaxStops}
    /\ stops_data = NotFetched
    /\ filtered_stops = NotCalled
    /\ stops_by_type = NotCalled
    /\ transport_type = NotCalled

\* The answer of the stops endpoint: the directory, or a status other than 200.
StopsResponses == {[status_ok |-> ok, data |-> directory] : ok \in BOOLEAN}

\* get_stops is called for each of the types; with nothing cached it first
\* awaits a refresh, which fetches the directory.
GetStops ==
    /\ filtered_stops = NotCalled
    /\ \E response \in StopsResponses :
           stops_data' = IF stops_data.k = "none"
                         THEN Fetched(fetch_stops_data(response))
                         ELSE stops_data
    /\ filtered_stops' = Returned([t \in STOP_TYPES |-> get_stops(stops_data', t)])
    /\ UNCHANGED <<now, poll_vars, gate, pipeline_vars, sensor_vars, config_vars,
                   flow_vars, ext_vars, directory, stops_by_type, transport_type>>

\* The config flow reaches the stop selection and fetches the stops.
FetchStops ==
    /\ stops_by_type = NotCalled
    /\ \E response \in StopsResponses : stops_by_type' = Returned(fetch_stops(response))
    /\ UNCHANGED <<now, poll_vars, gate, pipeline_vars, sensor_vars, config_vars,
                   flow_vars, ext_vars, directory, stops_data, filtered_stops, transport_type>>

\* A sensor is built for each stop of the directory, on the stop's record.
BuildSensors ==
    /\ transport_type = NotCalled
    /\ transport_type' =
           Returned([i \in 1..Len(directory) |-> sensor_transport_type(directory[i])])
    /\ UNCHANGED <<now, poll_vars, gate, pipeline_vars, sensor_vars, config_vars,
                   flow_vars, ext_vars, directory, stops_data, filtered_stops, stops_by_type>>

StopNext == GetStops \/ FetchStops \/ BuildSensors

StopSpec == StopInit /\ [][StopNext]_vars

----------------------------------------------------------------------------
(* ConstructSpec: RealtimeDataCoordinator.__init__ on every pair of         *)
(* configured window strings                                                *)

TimeStrings ==
    {Clock24(4, 0), Clock24(23, 0), Clock24(24, 0), Clock24(4, 60),
     WithSeconds(4, 1, 0), WithSeconds(23, 0, 99), WithSeconds(25, 0, 0),
     Clock12(11, 0, TRUE), Clock12(12, 0, FALSE), Clock12(13, 0, TRUE),
     Clock12(0, 30, FALSE),
     Military(23, 0), Military(25, 0), Military(4, 60),
     Junk}

ConstructInit ==
    /\ now = At(1, 7, 0, 0)
    /\ disable_updates_start = [m \in Monitors |-> 0]
    /\ disable_updates_end = [m \in Monitors |-> 0]
    /\ data = [m \in Monitors |-> EmptyBoard]
    /\ pc = [m \in Monitors |-> "idle"]
    /\ all_trips = [m \in Monitors |-> <<>>]
    /\ params = [m \in Monitors |-> NoParams]
    /\ requests = [m \in Monitors |-> NoRequests]
    /\ held = [m \in Monitors |-> EmptyBoard]
    /\ outcome = [m \in Monitors |-> "none"]
    /\ succeeded = [m \in Monitors |-> FALSE]
    /\ native_value = [m \in Monitors |-> NoSensor]
    /\ gate = [m \in Monitors |-> GateUnset]
    /\ PipelineOff
    /\ SensorOff
    /\ StopsOff
    /\ FlowOff
    /\ ExtOff
    /\ \E start_str \in TimeStrings, end_str \in TimeStrings :
           options = [m \in Monitors |-> [start |-> start_str, end |-> end_str]]
    /\ constructed = [m \in Monitors |-> "no"]

\* async_setup_entry builds the RealtimeDataCoordinator of monitor m from the
\* window strings of the entry's options.
Construct(m) ==
    /\ constructed[m] = "no"
    /\ LET window == configured_window(options[m].start, options[m].end)
       IN  IF window.raised
           THEN /\ constructed' = [constructed EXCEPT ![m] = "raised"]
                /\ UNCHANGED <<disable_updates_start, disable_updates_end>>
           ELSE /\ constructed' = [constructed EXCEPT ![m] = "ok"]
                /\ disable_updates_start' =
                       [disable_updates_start EXCEPT ![m] = window.start]
                /\ disable_updates_end' = [disable_updates_end EXCEPT ![m] = window.end]
    /\ UNCHANGED <<now, data, pc, all_trips, params, requests, held, outcome, succeeded,
                   native_value, gate, pipeline_vars, sensor_vars, stop_vars, options,
                   flow_vars, ext_vars>>

ConstructNext == \E m \in Solo : Construct(m)

ConstructSpec == ConstructInit /\ [][ConstructNext]_vars

----------------------------------------------------------------------------
(* FlowSpec: runs of the config flow, one after the other *)

ApiKeys == {"key1", "key2"}
FlowStopIds == {"s1", "s2"}

FlowInit ==
    /\ now = At(1, 7, 0, 0)
    /\ PollIdle
    /\ gate = [m \in Monitors |-> GateUnset]
    /\ PipelineOff
    /\ SensorOff
    /\ StopsOff
    /\ ConfigOff
    /\ ExtOff
    /\ flow = NoFlow
    /\ entries = {}
    /\ validated = {}

FlowUnchanged ==
    UNCHANGED <<now, poll_vars, gate, pipeline_vars, sensor_vars, stop_vars, config_vars,
                ext_vars>>

\* The user starts a flow: async_step_user without input.  With no existing
\* key it goes straight to the key-entry form.
StartFlow ==
    /\ flow.step \in {"none", "created", "failed"}
    /\ flow' = [NewFlow EXCEPT !.step = IF existing_api_keys(entries) = {}
                                        THEN "new_api_key" ELSE "user"]
    /\ UNCHANGED <<entries, validated>>
    /\ FlowUnchanged

\* async_step_user with the user's choice: "new", or one of the existing keys,
\* which becomes self._api_key as it is.
ChooseKey ==
    /\ flow.step = "user"
    /\ \E choice \in existing_api_keys(entries) \cup {"new"} :
           flow' = IF choice = "new"
                   THEN [flow EXCEPT !.step = "new_api_key", !.errors = "",
                                     !.attempt = NoAttempt]
                   ELSE [flow EXCEPT !.step = "stop_type_selection",
                                     !.api_key = [k |-> "str", v |-> choice],
                                     !.errors = "", !.attempt = NoAttempt]
    /\ UNCHANGED <<entries, validated>>
    /\ FlowUnchanged

\* async_step_new_api_key with a key the user entered: the key is validated
\* by a call of the stops endpoint.
EnterKey ==
    /\ flow.step = "new_api_key"
    /\ \E api_key \in ApiKeys, answer \in ValidationAnswers :
           /\ validated' = IF answer = "200" THEN validated \cup {api_key} ELSE validated
           /\ flow' = IF validate_api_key(answer)
                      THEN [flow EXCEPT !.step = "stop_type_selection",
                                        !.api_key = [k |-> "str", v |-> api_key],
                                        !.errors = "",
                                        !.attempt = [made |-> TRUE, api_key |-> api_key,
                                                     answer |-> answer]]
                      ELSE [flow EXCEPT !.errors = "invalid_auth",
                                        !.attempt = [made |-> TRUE, api_key |-> api_key,
                                                     answer |-> answer]]
    /\ UNCHANGED entries
    /\ FlowUnchanged

\* async_step_stop_type_selection with the user's choice.
ChooseStopType ==
    /\ flow.step = "stop_type_selection"
    /\ \E stop_type \in STOP_TYPES :
           flow' = [flow EXCEPT !.step = "stop_selection", !.stop_type = stop_type,
                                !.errors = "", !.attempt = NoAttempt]
    /\ UNCHANGED <<entries, validated>>
    /\ FlowUnchanged

\* async_step_stop_selection with the stop the user chose: a stop already
\* configured is refused, a stop that is not among the options raises
\* (stop_options[stop_id]), any other creates the entry from self._data.
ChooseStop ==
    /\ flow.step = "stop_selection"
    /\ \E stop_id \in FlowStopIds, listed \in BOOLEAN :
           IF \E entry \in entries : entry.stop_id = stop_id
           THEN /\ flow' = [flow EXCEPT !.errors = "already_configured"]
                /\ UNCHANGED entries
           ELSE IF ~listed
           THEN /\ flow' = [flow EXCEPT !.step = "failed"]
                /\ UNCHANGED entries
           ELSE /\ flow' = [flow EXCEPT !.step = "created", !.errors = ""]
                /\ entries' = entries \cup {[api_key |-> flow.api_key.v,
                                              stop_type |-> flow.stop_type,
                                              stop_id |-> stop_id]}
    /\ UNCHANGED validated
    /\ FlowUnchanged

FlowNext == StartFlow \/ ChooseKey \/ EnterKey \/ ChooseStopType \/ ChooseStop

FlowSpec == FlowInit /\ [][FlowNext]_vars

----------------------------------------------------------------------------
(* Properties of the poll cycle (Spec) *)

\* The quiet window as the configuration states it: from start up to, not
\* including, end, across midnight when start > end.
InQuietWindow(m, t) ==
    LET start == disable_updates_start[m]
        end == disable_updates_end[m]
    IN  \/ (start <= end /\ start <= t /\ t < end)
        \/ (start > end /\ (t >= start \/ t < end))

Failed(m) == outcome[m] \in FailureKinds

\* C1: a poll tick whose time of day lies inside the quiet window returns
\* exactly the board held before it (arrivals and next_departure unchanged)
\* and issues no request, neither stoptrips nor tripupdates.
C1_QuietTickKeepsBoardAndSendsNothing ==
    \A m \in Monitors :
        (gate[m].checked /\ InQuietWindow(m, gate[m].at)) =>
            /\ pc[m] = "idle"
            /\ outcome[m] = "quiet"
            /\ data[m] = held[m]
            /\ requests[m] = NoRequests

\* A quiet tick of a monitor that holds a board with departures on it.
C1_Witness ==
    \E m \in Monitors :
        /\ outcome[m] = "quiet"
        /\ InQuietWindow(m, gate[m].at)
        /\ data[m].arrivals # <<>>
        /\ data[m].next_departure # <<>>

\* C2: once an Active tick has succeeded, a later Active tick that fails
\* (stoptrips status other than 200, a transport exception, a JSON failure)
\* leaves the published board equal to the board held before that tick; a
\* failure never replaces the board by the empty board.
C2_FailedTickKeepsBoard ==
    \A m \in Monitors :
        (Failed(m) /\ succeeded[m]) => data[m] = held[m]

\* C11: when a poll fails and no board was fetched before it (the very
\* first poll, or a poll after nothing but failures), _async_update_data does
\* not raise: it returns, the board it returns is the empty board
\* {arrivals: [], next_departure: None}, and the sensor then shows
\* "No upcoming departures".
C11_FirstPollFailureGivesEmptyBoard ==
    \A m \in Monitors :
        (Failed(m) /\ ~succeeded[m] /\ held[m] = EmptyBoard) =>
            /\ pc[m] = "idle"
            /\ data[m] = [arrivals |-> <<>>, next_departure |-> <<>>]
            /\ native_value[m] = Text("No upcoming departures")

\* The first poll of a monitor has failed on an exception of the transport,
\* and the sensor has been built on what it returned.
C11_Witness ==
    \E m \in Monitors :
        /\ outcome[m] = "exception"
        /\ ~succeeded[m]
        /\ gate[m].before = "none"
        /\ data[m].arrivals = <<>>
        /\ native_value[m].k = "text"

\* C12: the gate holds no stored mode.  For every tick, a fetch is performed
\* exactly when the time of day the tick read lies outside the configured
\* window, whatever the earlier ticks did and however much time passed since
\* them; so the first tick outside the window after quiet ticks fetches.
C12_FetchDependsOnlyOnTimeAndWindow ==
    \A m \in Monitors :
        gate[m].checked =>
            /\ requests[m].stoptrips = 1 <=> ~InQuietWindow(m, gate[m].at)
            /\ outcome[m] = "quiet" <=> InQuietWindow(m, gate[m].at)

\* A tick outside the window that follows a quiet tick, and has sent its
\* stoptrips request.
C12_Witness ==
    \E m \in Monitors :
        /\ gate[m].checked
        /\ gate[m].before = "quiet"
        /\ ~InQuietWindow(m, gate[m].at)
        /\ requests[m].stoptrips = 1
        /\ pc[m] = "stoptrips"

\* "HH:MM:SS": two digits each, hours below 24, minutes and seconds below 60.
IsHHMMSS(t) == t.k = "hms" /\ t.h \in 0..23 /\ t.m \in 0..59 /\ t.s \in 0..59

\* C13: once the sensor is built, after every coordinator update its native
\* value is the next departure's actual departure time as HH:MM:SS when the
\* board has a next departure, and is "No upcoming departures" exactly when
\* the board has none.
C13_NativeValueIsNextDeparture ==
    \A m \in Monitors :
        native_value[m] # NoSensor =>
            /\ data[m].next_departure # <<>> =>
                   LET next_departure == data[m].next_departure[1]
                   IN  /\ native_value[m].k = "time"
                       /\ native_value[m].t = next_departure.actual_departure_time
                       /\ IsHHMMSS(native_value[m].t)
                       /\ At(0, native_value[m].t.h, native_value[m].t.m,
                                native_value[m].t.s)
                              = TimeOfDay(next_departure.actual_departure_datetime.v)
            /\ native_value[m] = Text("No upcoming departures")
                   <=> data[m].next_departure = <<>>

\* An update of a sensor that showed a board before: the next departure runs
\* an hour early, and the sensor shows its actual time, not the scheduled one.
C13_Witness ==
    \E m \in Monitors :
        /\ outcome[m] = "ok"
        /\ held[m].next_departure # <<>>
        /\ data[m].next_departure # <<>>
        /\ data[m].next_departure[1].delay_seconds = Num(0 - 3600)
        /\ native_value[m] = TimeText(data[m].next_departure[1].actual_departure_time)
        /\ native_value[m].t # data[m].next_departure[1].scheduled_departure_time

\* The latest tick of monitor m found the gate open: its cycle is Active.
ActiveCycle(m) == gate[m].checked /\ ~gate[m].disabled

\* C20: an Active poll cycle goes gate check, stoptrips request, tripupdates
\* request, reconcile, publish, in that order: a request is in flight only
\* after the gate was found open, and nothing is published while one is.  The
\* cycle sends exactly one stoptrips request and at most one tripupdates
\* request, the latter only after the stoptrips request succeeded with at
\* least one trip id; so never more than two requests.
C20_OneStopTripsAtMostOneTripUpdates ==
    \A m \in Monitors :
        /\ pc[m] # "idle" => ActiveCycle(m)
        /\ ActiveCycle(m) =>
            /\ requests[m].stoptrips = 1
            /\ requests[m].tripupdates \in {0, 1}
            /\ pc[m] = "stoptrips" =>
                   /\ requests[m].tripupdates = 0
                   /\ outcome[m] = "running"
                   /\ data[m] = held[m]
            /\ pc[m] = "tripupdates" =>
                   /\ requests[m].tripupdates = 1
                   /\ \E i \in 1..Len(all_trips[m]) : Truthy(all_trips[m][i].trip_id)
                   /\ outcome[m] = "running"
                   /\ data[m] = held[m]
            /\ pc[m] = "idle" => outcome[m] = "ok" \/ Failed(m)
            /\ Failed(m) => requests[m].tripupdates = 0
            /\ (outcome[m] = "ok" /\ requests[m].tripupdates = 0) =>
                   \A i \in 1..Len(data[m].arrivals) : ~Truthy(data[m].arrivals[i].trip_id)

\* A finished Active cycle that sent both requests and published a board with
\* a departure on it.
C20_Witness ==
    \E m \in Monitors :
        /\ ActiveCycle(m)
        /\ pc[m] = "idle"
        /\ outcome[m] = "ok"
        /\ requests[m] = [stoptrips |-> 1, tripupdates |-> 1]
        /\ data[m].arrivals # <<>>

\* What belongs to one monitor: its board, its quiet window, its position in
\* the cycle and everything else the coordinator and its sensor hold.
MonitorState(m) ==
    <<data[m], disable_updates_start[m], disable_updates_end[m], pc[m], all_trips[m],
      params[m], requests[m], held[m], outcome[m], succeeded[m], gate[m],
      native_value[m]>>

\* The boards monitor m can publish when it runs alone: the empty board it is
\* built with and returns on failure, and the reconciliation of an answer for
\* its own stop with any realtime answer at any time.
AloneBoards ==
    [m \in Pair |->
        {EmptyBoard} \cup
        {Board(process_trips_with_delay(
                   merge_realtime(extract_trips(result),
                                  fetch_realtime_trip_details_batch(response)), t)) :
             result \in StopTripsBodies(m), response \in TripUpdatesResponses,
             t \in PollClock}]

StepLeavesOtherMonitorAlone ==
    \A m \in Pair : \A o \in Pair \ {m} :
        MonitorState(m)' # MonitorState(m) =>
            /\ data'[o] = data[o]
            /\ disable_updates_start'[o] = disable_updates_start[o]
            /\ disable_updates_end'[o] = disable_updates_end[o]

\* C19: with two monitors polling in any interleaving, a step of one monitor
\* (gate check, request, answer, reconciliation, publication or failure)
\* leaves the other monitor's board and quiet window as they were, and the
\* board of each monitor is always one it could have published running alone.
C19_MonitorsDoNotInterfere ==
    /\ [](\A m \in Pair : data[m] \in AloneBoards[m])
    /\ [][StepLeavesOtherMonitorAlone]_vars

\* The second monitor holds a board of its own and is waiting for its realtime
\* answer; the first monitor started a cycle after it and has already
\* published a different, non-empty board.
C19_Witness ==
    /\ pc["m3"] = "tripupdates"
    /\ data["m3"].arrivals # <<>>
    /\ outcome["m2"] = "ok"
    /\ gate["m2"].at > gate["m3"].at
    /\ data["m2"].arrivals # <<>>
    /\ data["m2"] # data["m3"]
    /\ disable_updates_start["m2"] # disable_updates_start["m3"]

----------------------------------------------------------------------------
(* Properties of the quiet-hours gate (GateSpec) *)

\* C3: for every start, end and current time of day, _is_update_disabled is
\* true exactly when (start <= end and start <= now < end) or
\* (start > end and (now >= start or now < end)).
C3_GateMatchesWindowRule ==
    \A m \in Monitors :
        gate[m].checked =>
            LET start == disable_updates_start[m]
                end == disable_updates_end[m]
                t == gate[m].at
            IN  gate[m].disabled <=>
                    \/ (start <= end /\ start <= t /\ t < end)
                    \/ (start > end /\ (t >= start \/ t < end))

\* A window across midnight, checked after midnight and before its end.
C3_Witness ==
    \E m \in Monitors :
        /\ gate[m].checked
        /\ gate[m].disabled
        /\ disable_updates_start[m] > disable_updates_end[m]
        /\ gate[m].at < disable_updates_end[m]

\* C4 as stated: for every configured window, wrapping or not, the gate is
\* quiet when now = start and not quiet when now = end.
C4_BoundariesOfEveryWindow ==
    \A m \in Monitors :
        gate[m].checked =>
            /\ (gate[m].at = disable_updates_start[m] => gate[m].disabled)
            /\ (gate[m].at = disable_updates_end[m] => ~gate[m].disabled)

\* C4 amended: for every configured window whose start and end differ,
\* wrapping or not, the gate is quiet when now = start and not quiet when
\* now = end; a window with start = end is empty (never quiet).
C4_BoundariesOfNonEmptyWindow ==
    \A m \in Monitors :
        gate[m].checked =>
            /\ disable_updates_start[m] # disable_updates_end[m] =>
                /\ (gate[m].at = disable_updates_start[m] => gate[m].disabled)
                /\ (gate[m].at = disable_updates_end[m] => ~gate[m].disabled)
            /\ disable_updates_start[m] = disable_updates_end[m] => ~gate[m].disabled

\* A window across midnight, checked at the instant it ends.
C4_Witness ==
    \E m \in Monitors :
        /\ gate[m].checked
        /\ disable_updates_start[m] > disable_updates_end[m]
        /\ gate[m].at = disable_updates_end[m]
        /\ ~gate[m].disabled

----------------------------------------------------------------------------
(* Properties of reconciliation (ReconcileSpec) *)

Reconciled == r_stage \in {"processed", "reprocessed"}

Refs(res) == {res.arrivals[k] : k \in 1..Len(res.arrivals)}

TripA0800Early ==
    [TripData([trip_id |-> Str("A"), departure_time |-> T(8, 0, 0)])
        EXCEPT !.delay_seconds = Num(0 - 3600), !.license_plate = Str("P1")]
TripA0800 == TripData([trip_id |-> Str("A"), departure_time |-> T(8, 0, 0)])
TripB0730 == TripData([trip_id |-> Str("B"), departure_time |-> T(7, 30, 0)])

\* C6: the board lists the retained trips in ascending order of actual
\* instant, trips with equal instants in their fetch order, and
\* next_departure is the first of them or absent when there is none; with
\* A 08:00 and B 07:30 at now 07:00 the board is [B, A], and [A, B] once A
\* runs an hour early.
C6_SortedStableNext ==
    Reconciled =>
        LET a == r_first.arrivals
            key(k) == r_first.trips[a[k]].actual_departure_datetime.v
            board == Board(r_first)
        IN  /\ Refs(r_first) = {i \in 1..Len(r_merged) : Kept(r_merged[i], now)}
            /\ Cardinality(Refs(r_first)) = Len(a)
            /\ \A j, k \in 1..Len(a) :
                   j < k => /\ key(j) <= key(k)
                            /\ key(j) = key(k) => a[j] < a[k]
            /\ Len(board.arrivals) = Len(a)
            /\ board.next_departure =
                   IF Len(a) = 0 THEN <<>> ELSE <<r_first.trips[a[1]]>>
            /\ (TimeOfDay(now) = Hms(7, 0, 0) /\ r_merged = <<TripA0800, TripB0730>>)
                   => a = <<2, 1>>
            /\ (TimeOfDay(now) = Hms(7, 0, 0) /\ r_merged = <<TripA0800Early, TripB0730>>)
                   => a = <<1, 2>>

\* The scenario's flip: A 08:00 running an hour early and B 07:30 reconciled
\* at 07:00, with A as the next departure.
C6_Witness ==
    /\ Reconciled
    /\ TimeOfDay(now) = Hms(7, 0, 0)
    /\ r_merged = <<TripA0800Early, TripB0730>>
    /\ Board(r_first).next_departure # <<>>
    /\ Board(r_first).next_departure[1].trip_id = Str("A")

\* C7: applying _process_trips_with_delay twice to the same trip records with
\* the same now gives identical boards (members, order, scheduled and actual
\* times), also when a trip has a raw scheduled hour >= 24.
C7_ReconcileTwiceSameBoard ==
    r_stage = "reprocessed" =>
        /\ r_second.arrivals = r_first.arrivals
        /\ Board(r_second) = Board(r_first)

\* C8: a trip with raw hour h >= 24 and delay 0 is kept and resolved to
\* (reference date + h div 24 days) at (h mod 24):MM:SS; "25:10:00" at
\* now = 01:00 is on the board as "01:10:00" of the day after the reference
\* date.
C8_RolloverResolved ==
    Reconciled =>
        \A i \in 1..Len(r_merged) :
            LET t == r_merged[i].scheduled_departure_time
            IN  (Parses(t) /\ t.h >= 24 /\ delay_of(r_merged[i]) = 0) =>
                    /\ i \in Refs(r_first)
                    /\ r_first.trips[i].actual_departure_datetime =
                           Dt((DateOf(now) + (t.h \div 24)) * 86400
                              + Hms(t.h % 24, t.m, t.s))
                    /\ r_first.trips[i].actual_departure_time = T(t.h % 24, t.m, t.s)
                    /\ (t = T(25, 10, 0) /\ TimeOfDay(now) = Hms(1, 0, 0)) =>
                           /\ r_first.trips[i].actual_departure_time = T(1, 10, 0)
                           /\ DateOf(r_first.trips[i].actual_departure_datetime.v)
                                  = DateOf(now) + 1

\* "25:10:00" with no delay, reconciled at 01:00 and on the board.
C8_Witness ==
    /\ Reconciled
    /\ TimeOfDay(now) = Hms(1, 0, 0)
    /\ \E i \in Refs(r_first) :
           /\ r_merged[i].scheduled_departure_time = T(25, 10, 0)
           /\ delay_of(r_merged[i]) = 0

\* C9: when the realtime mapping has entries for only some of the fetched
\* trips, each of those trips gets its own entry's delay and plate, every
\* other trip is reconciled with delay 0 and no plate (actual = scheduled),
\* and no trip receives another trip's realtime data.
C9_MergeByTripId ==
    Reconciled =>
        /\ Len(r_merged) = Len(r_result.data)
        /\ \A i \in 1..Len(r_merged) :
               LET id == r_result.data[i].trip_id
                   t == r_result.data[i].departure_time
                   own == r_realtime[id.v]
                   known == Truthy(id) /\ id.v \in DOMAIN r_realtime
                   delay == IF known /\ own.delay_seconds.k = "int"
                            THEN own.delay_seconds.v ELSE 0
               IN  /\ known => /\ r_first.trips[i].delay_seconds = own.delay_seconds
                               /\ r_first.trips[i].license_plate = own.license_plate
                   /\ ~known => /\ r_first.trips[i].delay_seconds = AbsentInt
                                /\ r_first.trips[i].license_plate = AbsentStr
                   /\ i \in Refs(r_first) =>
                          r_first.trips[i].actual_departure_datetime.v
                              = scheduled_dt(t, now) + delay

\* Trips A and B both on the board, the mapping holding an entry for A only:
\* A carries its delay, B none.
C9_Witness ==
    /\ Reconciled
    /\ DOMAIN r_realtime = {"A"}
    /\ \E i, j \in Refs(r_first) :
           /\ r_first.trips[i].trip_id = Str("A")
           /\ r_first.trips[i].delay_seconds = Num(1800)
           /\ r_first.trips[j].trip_id = Str("B")
           /\ r_first.trips[j].delay_seconds = AbsentInt
           /\ r_first.trips[j].actual_departure_datetime.v
                  = scheduled_dt(r_result.data[j].departure_time, now)

\* C10 as stated: a record of the stoptrips response that lacks a trip id or
\* a departure time never appears on the board.
C10_SparseRecordsNeverOnBoard ==
    Reconciled =>
        \A k \in 1..Len(r_first.arrivals) :
            LET trip == r_first.trips[r_first.arrivals[k]]
            IN  /\ Truthy(trip.trip_id)
                /\ trip.scheduled_departure_time.k = "hms"

\* C10 amended: a record that lacks a departure time never appears on the
\* board; every other record, also one that lacks a trip id, is a candidate:
\* it is on the board exactly when its time parses and it has not departed.
C10_OnlyTimelessRecordsDropped ==
    Reconciled =>
        /\ Len(r_first.trips) = Len(r_result.data)
        /\ \A k \in 1..Len(r_first.arrivals) :
               r_first.trips[r_first.arrivals[k]].scheduled_departure_time.k = "hms"
        /\ \A i \in 1..Len(r_result.data) :
               LET rec == r_result.data[i]
               IN  /\ rec.departure_time.k = "none" => i \notin Refs(r_first)
                   /\ i \in Refs(r_first) <=>
                          /\ Parses(rec.departure_time)
                          /\ ~(actual_dt(r_merged[i], now) < now
                               /\ rec.departure_time.h < 24)
                   /\ i \in Refs(r_first) => r_first.trips[i].trip_id = rec.trip_id

\* A record without a trip id, on the board.
C10_Witness ==
    /\ Reconciled
    /\ \E i \in Refs(r_first) : r_result.data[i].trip_id = NoStr

----------------------------------------------------------------------------
(* Properties of the sensor's attributes (SensorSpec) *)

\* C14: for every board and every configured number N of departures in
\* 1..10, extra_state_attributes gives the numbered departure records of
\* exactly the first min(N, number of arrivals) entries of the board, in
\* board order, and none beyond; remaining_departures_for_today is the full
\* number of arrivals (0 for the empty board); a record has a delay attribute
\* exactly when the entry's delay is known (a number).
C14_AttributesShowFirstNDepartures ==
    \A m \in Monitors :
        attrs[m].k = "read" =>
            LET arrivals == data[m].arrivals
                N == departure_qty[m]
                shown == IF N < Len(arrivals) THEN N ELSE Len(arrivals)
                departures == attrs[m].departures
            IN  /\ N \in 1..10
                /\ attrs[m].remaining_departures_for_today = Len(arrivals)
                /\ Len(departures) = shown
                /\ \A i \in 1..shown :
                       /\ departures[i].trip_id = arrivals[i].trip_id
                       /\ departures[i].scheduled_time = arrivals[i].scheduled_departure_time
                       /\ departures[i].actual_time = arrivals[i].actual_departure_time
                       /\ departures[i].delay_in_seconds.k # "absent"
                              <=> arrivals[i].delay_seconds.k = "int"
                       /\ departures[i].delay_in_seconds.k # "absent"
                              => departures[i].delay_in_seconds = arrivals[i].delay_seconds

\* A board of two arrivals read by a sensor configured to show one: the one
\* record is the first arrival's, and it has no delay attribute because the
\* realtime answer gave that trip a null delay.
C14_Witness ==
    \E m \in Monitors :
        /\ attrs[m].k = "read"
        /\ departure_qty[m] = 1
        /\ Len(data[m].arrivals) = 2
        /\ attrs[m].remaining_departures_for_today = 2
        /\ Len(attrs[m].departures) = 1
        /\ data[m].arrivals[1].delay_seconds = NoInt
        /\ attrs[m].departures[1].delay_in_seconds = AbsentInt

----------------------------------------------------------------------------
(* Properties of the stops directory (StopSpec) *)

\* The length of a stop's code; a missing, null or empty code has none.
CodeLength(stop) == IF stop.stop_code.k = "str" THEN Len(stop.stop_code.v) ELSE 0

\* C15: the classification of a stop by the length of its code is total:
\* length 3 is train, 4 is bus, 5 is ferry, and every other code, the empty
\* string and a missing code included, is unknown.
C15_ClassificationByCodeLength ==
    transport_type.k = "value" =>
        \A i \in 1..Len(directory) :
            LET n == CodeLength(directory[i])
            IN  /\ transport_type.v[i] \in {"train", "bus", "ferry", "unknown"}
                /\ n = 3 <=> transport_type.v[i] = "train"
                /\ n = 4 <=> transport_type.v[i] = "bus"
                /\ n = 5 <=> transport_type.v[i] = "ferry"
                /\ n \notin {3, 4, 5} <=> transport_type.v[i] = "unknown"

\* Sensors built for a stop of code "11500" and for a stop with no code.
C15_Witness ==
    /\ transport_type.k = "value"
    /\ Len(directory) = 2
    /\ directory[1].stop_code = Str("11500")
    /\ transport_type.v[1] = "ferry"
    /\ directory[2].stop_code = AbsentStr
    /\ transport_type.v[2] = "unknown"

\* get_stops, the config flow and the sensors have all run, and both
\* requests for the directory were answered with it.
AllClassified ==
    /\ filtered_stops.k = "value"
    /\ stops_by_type.k = "value"
    /\ transport_type.k = "value"

BothFetched == stops_data = Fetched(directory) /\ DOMAIN stops_by_type.v = STOP_TYPES

InFilteredStops(stop, t) ==
    \E j \in 1..Len(filtered_stops.v[t]) : filtered_stops.v[t][j] = stop

InStopsByType(stop, t) ==
    LET listed == current_stop_options(stops_by_type.v, t)
    IN  \E j \in 1..Len(listed) : listed[j] = stop_option(stop)

\* C16 as stated: for each stop and each type among train, bus and ferry, the
\* stop is in get_stops(type) and in the config flow's stops_by_type[type]
\* if and only if the sensor built for the stop has that transport_type.
C16_ListsAgreeWithSensorOnEveryStop ==
    (AllClassified /\ BothFetched) =>
        \A i \in 1..Len(directory) : \A t \in {"train", "bus", "ferry"} :
            (InFilteredStops(directory[i], t) /\ InStopsByType(directory[i], t))
                <=> transport_type.v[i] = t

\* C16, amended: when both requests for the directory succeeded, a stop is
\* in get_stops(type) exactly when its sensor has that transport_type; a stop
\* with a non-empty name and id is moreover in stops_by_type[type] exactly
\* then; a stop without a name or an id is in no list of the config flow.
C16_ListsAgreeWithSensorOnNamedStops ==
    (AllClassified /\ BothFetched) =>
        \A i \in 1..Len(directory) : \A t \in {"train", "bus", "ferry"} :
            LET stop == directory[i]
            IN  /\ InFilteredStops(stop, t) <=> transport_type.v[i] = t
                /\ (Truthy(stop.stop_name) /\ Truthy(stop.id)) =>
                       (InStopsByType(stop, t) <=> transport_type.v[i] = t)
                /\ ~(Truthy(stop.stop_name) /\ Truthy(stop.id)) =>
                       ~InStopsByType(stop, t)

\* A named bus stop in both bus lists with a bus sensor, beside a train stop
\* without a name, which get_stops lists and the sensor calls a train but
\* the config flow leaves out.
C16_Witness ==
    /\ AllClassified
    /\ BothFetched
    /\ Len(directory) = 2
    /\ directory[1] = [id |-> Str("s1"), stop_code |-> Str("1150"),
                        stop_name |-> Str("Britomart")]
    /\ InFilteredStops(directory[1], "bus")
    /\ InStopsByType(directory[1], "bus")
    /\ transport_type.v[1] = "bus"
    /\ directory[2] = [id |-> Str("s1"), stop_code |-> Str("115"), stop_name |-> AbsentStr]
    /\ InFilteredStops(directory[2], "train")
    /\ ~InStopsByType(directory[2], "train")
    /\ transport_type.v[2] = "train"

----------------------------------------------------------------------------
(* Properties of the coordinator's construction (ConstructSpec) *)

\* C17: if the configured start or end string of the quiet window cannot be
\* parsed as a time of day, constructing the RealtimeDataCoordinator still
\* succeeds (no error escapes) and both bounds of the window in effect are
\* those of the default window.
C17_UnparseableWindowFallsBackToDefault ==
    \A m \in Monitors :
        (/\ constructed[m] # "no"
         /\ \/ ~parse_time_string(options[m].start).ok
            \/ ~parse_time_string(options[m].end).ok) =>
            /\ constructed[m] = "ok"
            /\ disable_updates_start[m] =
                   parse_time_string(DEFAULT_DISABLE_UPDATES_START).time
            /\ disable_updates_end[m] =
                   parse_time_string(DEFAULT_DISABLE_UPDATES_END).time

\* A coordinator built from "23:00" and a text that is no time: the start,
\* though it parses, is the default's too.
C17_Witness ==
    \E m \in Monitors :
        /\ constructed[m] = "ok"
        /\ options[m].start = Clock24(23, 0)
        /\ options[m].end = Junk
        /\ disable_updates_start[m] # Hms(23, 0, 0)
        /\ disable_updates_start[m] < disable_updates_end[m]

----------------------------------------------------------------------------
(* Properties of the config flow (FlowSpec) *)

----------------------------------------------------------------------------
(* SwapSpec: the poll cycle of one monitor with the dicts as objects.  The  *)
(* cycle's trip dicts are made by _extract_trips, changed in place by the   *)
(* merge and by _process_trips_with_delay, and returned in a new board      *)
(* dict, which becomes self.data when _async_update_data returns.  A reader *)
(* (the sensor, a template) takes self.data at any time and keeps the       *)
(* object it got.                                                           *)

SwapClock == {At(1, 3, 59, 59), At(1, 7, 0, 0), At(1, 7, 45, 0)}

SwapBodies ==
    {[k |-> "no_data", data |-> <<>>]}
    \cup {[k |-> "data", data |-> d] :
            d \in {<<[trip_id |-> Str("A"), departure_time |-> T(8, 0, 0)]>>,
                   <<[trip_id |-> Str("A"), departure_time |-> T(8, 0, 0)],
                     [trip_id |-> Str("B"), departure_time |-> T(7, 30, 0)]>>,
                   <<[trip_id |-> NoStr, departure_time |-> T(25, 10, 0)]>>}}

SwapResponses ==
    {[k |-> "exception", status_ok |-> FALSE, entity |-> <<>>],
     [k |-> "ok", status_ok |-> TRUE,
      entity |-> <<Entity(Str("A"), TRUE, Str("P1"), Num(0 - 3600), AbsentInt)>>]}

\* What a reader of the board object o gets.
View(h, o) == Board(h[o])

\* The objects something refers to.
Live(ref, cycle, rd) == ({ref, cycle, rd.ref}) \ {NoRef}

\* A new dict: an object nothing refers to.
new_object(live) == CHOOSE o \in Objects \ live : \A p \in Objects \ live : o <= p

\* Objects nothing refers to any more are gone.
collected(h, live) == [o \in Objects |-> IF o \in live THEN h[o] ELSE NoResult]

failure_board_cleared_in_place(h, ref, fresh) ==
    [heap |-> [h EXCEPT ![ref] = NoResult], ref |-> ref]

\* return {"arrivals": [], "next_departure": None}: a new dict
failure_board(h, ref, fresh) ==
    [heap |-> [h EXCEPT ![fresh] = NoResult], ref |-> fresh]

SwapInit ==
    /\ now \in SwapClock
    /\ PollIdle
    /\ gate = [m \in Monitors |-> GateUnset]
    /\ PipelineOff
    /\ SensorOff
    /\ StopsOff
    /\ ConfigOff
    /\ FlowOff
    /\ EnrichOff
    /\ CalcOff
    /\ UpdateOff
    /\ heap = [o \in Objects |-> NoResult]
    /\ data_ref = 0
    /\ cycle_ref = NoRef
    /\ reader = NoReader

SwapUnchanged ==
    UNCHANGED <<disable_updates_start, disable_updates_end, all_trips, params, requests,
                held, outcome, succeeded, native_value, gate, pipeline_vars, sensor_vars,
                stop_vars, config_vars, flow_vars, enrich, calc, update>>

\* What a step leaves: the objects still referred to, and the board a reader
\* of self.data gets.
SwapResult(m, h, ref, cycle) ==
    /\ heap' = collected(h, Live(ref, cycle, reader))
    /\ data_ref' = ref
    /\ cycle_ref' = cycle
    /\ data' = published(data, m, View(h, ref))

\* The timer fires.  In the quiet window the method returns self.data, the
\* object it already is; otherwise the stoptrips request is sent.
SwapTick(m) ==
    /\ pc[m] = "idle"
    /\ IF is_update_disabled(disable_updates_start[m], disable_updates_end[m],
                             TimeOfDay(now))
       THEN /\ SwapResult(m, heap, data_ref, NoRef)
            /\ UNCHANGED pc
       ELSE /\ pc' = [pc EXCEPT ![m] = "stoptrips"]
            /\ UNCHANGED <<heap, data_ref, cycle_ref, data>>
    /\ UNCHANGED <<now, reader>>
    /\ SwapUnchanged

\* The stoptrips request fails: a new, empty board is returned.
SwapStopTripsFails(m) ==
    /\ pc[m] = "stoptrips"
    /\ LET fresh == new_object(Live(data_ref, cycle_ref, reader))
           res == failure_board(heap, data_ref, fresh)
       IN  SwapResult(m, res.heap, res.ref, NoRef)
    /\ pc' = [pc EXCEPT ![m] = "idle"]
    /\ UNCHANGED <<now, reader>>
    /\ SwapUnchanged

\* The stoptrips request answers: _extract_trips makes the trip dicts of the
\* cycle.  With trip ids the realtime request is sent; without, the dicts are
\* reconciled in place and returned in a new board.
SwapStopTripsAnswers(m) ==
    /\ pc[m] = "stoptrips"
    /\ \E result \in SwapBodies :
           LET fresh == new_object(Live(data_ref, cycle_ref, reader))
               trips == extract_trips(result)
           IN  IF trip_ids_of(trips) # <<>>
               THEN /\ SwapResult(m, [heap EXCEPT ![fresh] =
                                         [trips |-> trips, arrivals |-> <<>>]],
                                  data_ref, fresh)
                    /\ pc' = [pc EXCEPT ![m] = "tripupdates"]
               ELSE /\ SwapResult(m, [heap EXCEPT ![fresh] =
                                         process_trips_with_delay(trips, now)],
                                  fresh, NoRef)
                    /\ pc' = [pc EXCEPT ![m] = "idle"]
    /\ UNCHANGED <<now, reader>>
    /\ SwapUnchanged

\* The tripupdates request ends: the cycle's trip dicts are updated with the
\* realtime details and reconciled, both in place, and returned in a new board.
SwapTripUpdatesEnds(m) ==
    /\ pc[m] = "tripupdates"
    /\ \E response \in SwapResponses :
           LET realtime_details_batch == fetch_realtime_trip_details_batch(response)
               trips == merge_realtime(heap[cycle_ref].trips, realtime_details_batch)
           IN  SwapResult(m, [heap EXCEPT ![cycle_ref] =
                                 process_trips_with_delay(trips, now)],
                          cycle_ref, NoRef)
    /\ pc' = [pc EXCEPT ![m] = "idle"]
    /\ UNCHANGED <<now, reader>>
    /\ SwapUnchanged

\* A reader takes self.data (coordinator.data) and keeps it, letting go of
\* what it held before.
Read ==
    /\ reader' = [ref |-> data_ref, saw |-> View(heap, data_ref)]
    /\ heap' = collected(heap, Live(data_ref, cycle_ref, reader'))
    /\ UNCHANGED <<now, data, pc, data_ref, cycle_ref>>
    /\ SwapUnchanged

SwapTime ==
    /\ \E t \in SwapClock : t > now /\ now' = t
    /\ UNCHANGED <<data, pc, swap_vars>>
    /\ SwapUnchanged

SwapNext ==
    \/ \E m \in Solo :
           \/ SwapTick(m)
           \/ SwapStopTripsFails(m)
           \/ SwapStopTripsAnswers(m)
           \/ SwapTripUpdatesEnds(m)
    \/ Read
    \/ SwapTime

SwapSpec == SwapInit /\ [][SwapNext]_vars

\* The objects a reader can get hold of or holds already.
Visible == Live(data_ref, NoRef, reader)

\* A board every trip of which has been reconciled, in ascending order of the
\* actual departure, with its first arrival as next_departure.
Complete(board) ==
    /\ \A i \in 1..Len(board.arrivals) :
           /\ board.arrivals[i].actual_departure_datetime.k = "dt"
           /\ board.arrivals[i].actual_departure_time.k = "hms"
    /\ \A i \in 1..Len(board.arrivals) : \A j \in i..Len(board.arrivals) :
           board.arrivals[i].actual_departure_datetime.v
               <= board.arrivals[j].actual_departure_datetime.v
    /\ board.next_departure =
           IF board.arrivals = <<>> THEN <<>> ELSE <<board.arrivals[1]>>

VisibleObjectsAreNotWritten ==
    \A o \in Visible : o \in Visible' => heap'[o] = heap[o]

BoardChangesOnlyBySwap ==
    View(heap, data_ref)' = View(heap, data_ref) \/ data_ref' # data_ref

\* C21: within one monitor, a reader of the published board gets a complete
\* board at every point of a poll cycle, the previous one until the cycle
\* returns and the new one from then on; the board is replaced by another
\* object, and no object a reader can see or holds is written by a later step.
C21_BoardIsSwappedNotMutated ==
    /\ [](/\ Complete(View(heap, data_ref))
          /\ reader.ref # NoRef => View(heap, reader.ref) = reader.saw
          /\ cycle_ref # NoRef => cycle_ref \notin Visible)
    /\ [][VisibleObjectsAreNotWritten /\ BoardChangesOnlyBySwap]_vars

\* A reader holds the board of an earlier cycle with two departures, a later
\* cycle has replaced it with a different board, and the next cycle is
\* waiting for its realtime answer with trip dicts of its own.
C21_Witness ==
    /\ reader.ref # NoRef
    /\ reader.ref # data_ref
    /\ Len(reader.saw.arrivals) = 2
    /\ View(heap, data_ref) # reader.saw
    /\ View(heap, data_ref).arrivals # <<>>
    /\ cycle_ref # NoRef
    /\ heap[cycle_ref].trips # <<>>

----------------------------------------------------------------------------
(* CancelSpec: the poll cycle of a monitor whose running cycle can be       *)
(* abandoned while it waits for either of its two requests                  *)

abandoned_as_failure(board) == EmptyBoard

\* The task is cancelled at an await: asyncio.CancelledError is raised there.
\* It is not an Exception, so the except clause does not take it, the method
\* returns nothing and self.data keeps the board it holds.
abandoned(board) == board

\* The cycle of monitor m is abandoned during the stoptrips request or during
\* the tripupdates request; its locals are dropped.
Abandon(m) ==
    /\ pc[m] \in {"stoptrips", "tripupdates"}
    /\ data' = published(data, m, abandoned(data[m]))
    /\ pc' = [pc EXCEPT ![m] = "idle"]
    /\ all_trips' = [all_trips EXCEPT ![m] = <<>>]
    /\ outcome' = [outcome EXCEPT ![m] = "abandoned"]
    /\ UNCHANGED <<now, disable_updates_start, disable_updates_end, params, requests,
                   held, succeeded, native_value, gate, pipeline_vars, aux_vars>>

CancelNext ==
    \/ \E m \in Solo :
           \/ Tick(m)
           \/ StopTripsFails(m)
           \/ StopTripsAnswers(m)
           \/ TripUpdatesEnds(m)
           \/ Abandon(m)
    \/ TimePasses

CancelSpec == Init /\ [][CancelNext]_vars

AbandoningLeavesBoardAndWindow ==
    \A m \in Solo :
        (pc[m] # "idle" /\ outcome'[m] = "abandoned") =>
            /\ data'[m] = data[m]
            /\ disable_updates_start'[m] = disable_updates_start[m]
            /\ disable_updates_end'[m] = disable_updates_end[m]

\* C22: a poll cycle abandoned while it waits for the stoptrips answer or for
\* the tripupdates answer leaves the monitor's published board and its quiet
\* window exactly as they were when the cycle started: nothing is written
\* before the cycle returns, and abandoning it writes nothing.
C22_AbandonedCycleLeavesNoTrace ==
    /\ [](\A m \in Solo :
              (pc[m] # "idle" \/ outcome[m] = "abandoned") => data[m] = held[m])
    /\ [][AbandoningLeavesBoardAndWindow]_vars

\* A cycle was abandoned during its tripupdates request while the monitor held
\* a board with departures.
C22_Witness ==
    /\ outcome["m1"] = "abandoned"
    /\ requests["m1"].tripupdates = 1
    /\ data["m1"].arrivals # <<>>
    /\ pc["m1"] = "idle"

----------------------------------------------------------------------------
(* EnrichSpec: _fetch_realtime_trip_details_batch on every list of requested *)
(* trip ids and every answer of the tripupdates endpoint of the input sets   *)

\* Longest entity list of a tripupdates response drawn as an input.
MaxEntities == 2

\* The method is called with a non-empty list of trip ids.
RequestedIds == {<<"A">>, <<"B">>, <<"A", "B">>}

EnrichEntities ==
    {Entity(Str("A"), TRUE, Str("P1"), Num(0 - 3600), AbsentInt),
     Entity(Str("A"), TRUE, AbsentStr, Num(120), Num(60)),
     Entity(Str("A"), TRUE, AbsentStr, NoInt, Num(60)),
     Entity(Str("A"), FALSE, AbsentStr, AbsentInt, AbsentInt),
     Entity(Str("B"), TRUE, AbsentStr, AbsentInt, Num(1800)),
     Entity(Str("B"), TRUE, Str("P2"), AbsentInt, NoInt),
     Entity(Str("B"), TRUE, AbsentStr, AbsentInt, AbsentInt),
     Entity(Str("C"), TRUE, AbsentStr, Num(30), AbsentInt),
     Entity(NoStr, TRUE, AbsentStr, Num(30), AbsentInt),
     BadEntity}

EnrichResponses ==
    {[k |-> kind, status_ok |-> FALSE, entity |-> <<>>] : kind \in {"status", "exception"}}
    \cup {[k |-> "ok", status_ok |-> FALSE, entity |-> <<>>]}
    \cup {[k |-> "ok", status_ok |-> TRUE, entity |-> e] :
            e \in UNION {[1..n -> EnrichEntities] : n \in 0..MaxEntities}}

EnrichInit ==
    /\ now = At(1, 7, 0, 0)
    /\ PollIdle
    /\ gate = [m \in Monitors |-> GateUnset]
    /\ PipelineOff
    /\ SensorOff
    /\ StopsOff
    /\ ConfigOff
    /\ FlowOff
    /\ SwapOff
    /\ CalcOff
    /\ UpdateOff
    /\ \E trip_ids \in RequestedIds, response \in EnrichResponses :
           enrich = [stage |-> "called", trip_ids |-> trip_ids, response |-> response,
                     results |-> <<>>]

\* The request goes out with params {"tripid": ",".join(trip_ids)}, the
\* response comes in and the method returns results.
FetchBatch ==
    /\ enrich.stage = "called"
    /\ enrich' = [enrich EXCEPT
                     !.stage = "returned",
                     !.results = fetch_realtime_trip_details_batch(enrich.response)]
    /\ UNCHANGED <<now, poll_vars, gate, pipeline_vars, sensor_vars, stop_vars,
                   config_vars, flow_vars, swap_vars, calc, update>>

EnrichNext == FetchBatch

EnrichSpec == EnrichInit /\ [][EnrichNext]_vars

\* The ids the caller asked for.
Requested == {enrich.trip_ids[i] : i \in 1..Len(enrich.trip_ids)}

\* C23: the mapping _fetch_realtime_trip_details_batch returns has keys among
\* the requested trip ids only: an entity of the response contributes only
\* if its id is one of them.
C23_MappingKeysAreRequestedIds ==
    enrich.stage = "returned" => DOMAIN enrich.results \subseteq Requested

\* The response was parsed to its end: status 200, status "OK", every entity
\* a JSON object.
ParsedToEnd ==
    /\ enrich.stage = "returned"
    /\ enrich.response.k = "ok"
    /\ enrich.response.status_ok
    /\ \A i \in 1..Len(enrich.response.entity) : enrich.response.entity[i].k = "dict"

\* The entity the entry of trip id comes from: the last one of that id that
\* has a trip_update.
Contributes(i, id) ==
    LET entity == enrich.response.entity
    IN  /\ entity[i].id = Str(id)
        /\ entity[i].has_trip_update
        /\ \A j \in (i + 1)..Len(entity) :
               ~(entity[j].id = Str(id) /\ entity[j].has_trip_update)

\* C24 as claimed: the delay of an entry is the top-level delay when that is
\* a number, otherwise the nested arrival delay when that is a number (also
\* when the top-level delay is null), otherwise absent.
C24_DelayFirstUsableWins ==
    ParsedToEnd =>
        \A id \in DOMAIN enrich.results : \A i \in 1..Len(enrich.response.entity) :
            Contributes(i, id) =>
                LET e == enrich.response.entity[i]
                IN  enrich.results[id].delay_seconds =
                        IF e.delay.k = "int" THEN e.delay
                        ELSE IF e.arrival_delay.k = "int" THEN e.arrival_delay
                        ELSE NoInt

\* C24 (amended): the delay of an entry is the value of the top-level delay
\* field when trip_update has that key, a number never overridden by the
\* nested one and a null taken as no delay without looking further; without
\* the key it is the nested arrival delay when that is present, else absent.
C24_DelayFirstPresentKeyWins ==
    ParsedToEnd =>
        \A id \in DOMAIN enrich.results : \A i \in 1..Len(enrich.response.entity) :
            Contributes(i, id) =>
                LET e == enrich.response.entity[i]
                    delay_seconds == enrich.results[id].delay_seconds
                IN  /\ e.delay.k = "int" => delay_seconds = e.delay
                    /\ e.delay.k = "none" => delay_seconds.k = "none"
                    /\ (e.delay.k = "absent" /\ e.arrival_delay.k = "int") =>
                           delay_seconds = e.arrival_delay
                    /\ (e.delay.k = "absent" /\ e.arrival_delay.k # "int") =>
                           delay_seconds.k = "none"

\* A response with an entity that carries both delays and one that carries the
\* nested delay only: the first entry has the top-level delay, the second the
\* nested one.
C24_Witness ==
    /\ ParsedToEnd
    /\ DOMAIN enrich.results = {"A", "B"}
    /\ enrich.response.entity[1].delay = Num(120)
    /\ enrich.response.entity[1].arrival_delay = Num(60)
    /\ enrich.results["A"].delay_seconds = Num(120)
    /\ enrich.results["B"].delay_seconds = Num(1800)

\* A malformed answer of the tripupdates endpoint: no status 200 or a
\* transport exception, a body without status "OK" or without "response", or
\* an entity of unexpected shape anywhere in the list.
FailedOrMalformed ==
    \/ enrich.response.k # "ok"
    \/ ~enrich.response.status_ok
    \/ \E i \in 1..Len(enrich.response.entity) : enrich.response.entity[i].k = "bad"

\* C25: when the realtime request fails or its response is malformed, the
\* method returns the empty mapping (and raises nothing), so that every trip
\* of the cycle is reconciled without a delay.
C25_FailedOrMalformedGivesEmptyMapping ==
    (enrich.stage = "returned" /\ FailedOrMalformed) => enrich.results = <<>>

----------------------------------------------------------------------------
(* Properties of the reconciliation: unparseable times *)

\* The scheduled time is there but the try block fails on it.
Unparseable(trip) ==
    /\ trip.scheduled_departure_time.k # "none"
    /\ ~Parses(trip.scheduled_departure_time)

\* C26: a trip whose scheduled departure time does not parse as HH:MM:SS is
\* left off the board and the reconciliation goes on: the board is the one
\* the same call builds from the trips without the unparseable ones.
C26_UnparseableTripIsDroppedAlone ==
    Reconciled =>
        LET Parseable(trip) == ~Unparseable(trip)
        IN  /\ \A i \in Refs(r_first) : ~Unparseable(r_merged[i])
            /\ Board(r_first) =
                   Board(process_trips_with_delay(SelectSeq(r_merged, Parseable), now))

\* An unparseable trip ahead of a trip that is on the board.
C26_Witness ==
    /\ Reconciled
    /\ Len(r_merged) = 2
    /\ Unparseable(r_merged[1])
    /\ r_first.arrivals = <<2>>

----------------------------------------------------------------------------
(* CalcSpec: the actual departure of one trip as _process_trips_with_delay   *)
(* computes and stores it, for every scheduled hour from 0 to 47 and every   *)
(* pair of delays of the input sets                                          *)

CalcHours == 0..47
CalcMinutes == {0, 59}
CalcSeconds == {0, 59}

\* delay_seconds after the merge: no key, None, or a number of seconds.
CalcDelays ==
    {AbsentInt, NoInt, Num(0 - 90000), Num(0 - 3600), Num(0 - 1), Num(0), Num(1),
     Num(3600), Num(90000)}

CalcClock == {At(1, 0, 0, 0), At(1, 23, 59, 59)}

CalcTrip(time, delay) ==
    [TripData([trip_id |-> Str("A"), departure_time |-> time])
        EXCEPT !.delay_seconds = delay]

CalcInit ==
    /\ now \in CalcClock
    /\ PollIdle
    /\ gate = [m \in Monitors |-> GateUnset]
    /\ PipelineOff
    /\ SensorOff
    /\ StopsOff
    /\ ConfigOff
    /\ FlowOff
    /\ SwapOff
    /\ EnrichOff
    /\ UpdateOff
    /\ \E h \in CalcHours, m \in CalcMinutes, s \in CalcSeconds, d1, d2 \in CalcDelays :
           calc = [stage |-> "input", time |-> T(h, m, s), d1 |-> d1, d2 |-> d2,
                   first |-> <<>>, second |-> <<>>]

CalcUnchanged ==
    UNCHANGED <<now, poll_vars, gate, pipeline_vars, sensor_vars, stop_vars,
                config_vars, flow_vars, swap_vars, enrich, update>>

\* The try block of the loop, as far as the three assignments, on the trip
\* with the first delay.
CalcFirst ==
    /\ calc.stage = "input"
    /\ calc' = [calc EXCEPT !.stage = "first",
                            !.first = <<Processed(CalcTrip(calc.time, calc.d1), now)>>]
    /\ CalcUnchanged

\* The same on the trip with the second delay.
CalcSecond ==
    /\ calc.stage = "first"
    /\ calc' = [calc EXCEPT !.stage = "done",
                            !.second = <<Processed(CalcTrip(calc.time, calc.d2), now)>>]
    /\ CalcUnchanged

CalcNext == CalcFirst \/ CalcSecond

CalcSpec == CalcInit /\ [][CalcNext]_vars

\* The delay in seconds, an absent or null delay counting as zero.
Seconds(d) == IF d.k = "int" THEN d.v ELSE 0

\* The instant "HH:MM:SS" names on the service date of the reference clock:
\* that many hours, minutes and seconds after the midnight the date begins.
ServiceInstant(t, reference) == DateOf(reference) * 86400 + t.h * 3600 + t.m * 60 + t.s

\* C27: for every scheduled time with hour 0..47 the stored actual instant is
\* the instant the time names on the service date plus the delay in seconds
\* (zero when absent or null), also when that crosses midnight, with the
\* matching time of day as text; and of two delays the larger never gives
\* the earlier instant.
C27_ActualIsScheduledPlusDelayMonotonic ==
    calc.stage = "done" =>
        LET a1 == calc.first[1].actual_departure_datetime
            a2 == calc.second[1].actual_departure_datetime
        IN  /\ a1 = Dt(ServiceInstant(calc.time, now) + Seconds(calc.d1))
            /\ a2 = Dt(ServiceInstant(calc.time, now) + Seconds(calc.d2))
            /\ calc.first[1].actual_departure_time = strftime(a1.v)
            /\ Seconds(calc.d1) <= Seconds(calc.d2) => a1.v <= a2.v
            /\ Seconds(calc.d1) < Seconds(calc.d2) => a1.v < a2.v

\* "47:59:59" with a delay of one second, which carries the actual departure
\* over midnight into the third day, and with a delay of an hour before.
C27_Witness ==
    /\ calc.stage = "done"
    /\ calc.time = T(47, 59, 59)
    /\ calc.d1 = Num(0 - 3600)
    /\ calc.d2 = Num(1)
    /\ DateOf(calc.second[1].actual_departure_datetime.v) = DateOf(now) + 2
    /\ calc.second[1].actual_departure_time = T(0, 0, 0)
    /\ DateOf(calc.first[1].actual_departure_datetime.v) = DateOf(now) + 1

----------------------------------------------------------------------------
(* Properties of the board a monitor holds *)

NextIsFirstArrival(board) ==
    /\ board.next_departure = <<>> <=> board.arrivals = <<>>
    /\ board.arrivals # <<>> => board.next_departure = <<board.arrivals[1]>>

\* C28: in every state of a monitor (as built, after a successful poll, after
\* a failed poll, after a quiet tick, with a cycle in flight) the board it
\* holds has no next_departure exactly when it has no arrivals, and otherwise
\* its next_departure is its first arrival.
C28_NextDepartureIsFirstArrival ==
    \A m \in Solo : NextIsFirstArrival(data[m])

\* A quiet tick has returned a board of two arrivals, the earlier one (B, at
\* 07:30) first and as next_departure.
C28_Witness ==
    /\ outcome["m1"] = "quiet"
    /\ Len(data["m1"].arrivals) = 2
    /\ data["m1"].arrivals[1].trip_id = Str("B")
    /\ data["m1"].arrivals[2].trip_id = Str("A")
    /\ data["m1"].next_departure = <<data["m1"].arrivals[1]>>

----------------------------------------------------------------------------
(* Properties of the poll cycle: the service date *)

\* The boards the step that ends the running cycle of monitor m can publish
\* when the scheduled times are resolved on the date the request asked for,
\* at the time of day it is now.
BoardsOnRequestDate(m) ==
    LET reference == params[m].date * 86400 + TimeOfDay(now)
    IN  IF pc[m] = "tripupdates"
        THEN {Board(process_trips_with_delay(
                        merge_realtime(all_trips[m],
                                       fetch_realtime_trip_details_batch(response)),
                        reference)) : response \in TripUpdatesResponses}
        ELSE {Board(process_trips_with_delay(extract_trips(result), reference)) :
                  result \in StopTripsBodies(m)}

CycleEndsOnRequestDate ==
    \A m \in Solo :
        (pc[m] # "idle" /\ pc'[m] = "idle" /\ outcome'[m] = "ok") =>
            data'[m] \in BoardsOnRequestDate(m)

CycleEndsOnRequestDateSameDay ==
    \A m \in Solo :
        (pc[m] # "idle" /\ pc'[m] = "idle" /\ outcome'[m] = "ok"
         /\ DateOf(now) = params[m].date) =>
            data'[m] \in BoardsOnRequestDate(m)

\* C29: within one poll cycle the date sent as filter[date] of the stoptrips
\* request is the date the returned scheduled times are resolved on, also
\* when midnight passes between the request and the reconciliation.
C29_RequestDateIsReferenceDate == [][CycleEndsOnRequestDate]_vars

\* The same for the cycles that end on the day they began, where it holds.
SameDayCycleEndsOnRequestDate == [][CycleEndsOnRequestDateSameDay]_vars

----------------------------------------------------------------------------
(* DirectorySpec: the updates of the stop coordinator,                      *)
(* AucklandTransportDataUpdateCoordinator._async_update_data, while the     *)
(* directory the endpoint serves changes                                    *)

\* Most updates of the stop coordinator in a run.
MaxUpdates == 3

Britomart == [id |-> Str("s1"), stop_code |-> Str("115"), stop_name |-> Str("Britomart")]
Devonport == [id |-> Str("s2"), stop_code |-> Str("11500"), stop_name |-> Str("Devonport")]

DirectoryLists == {<<>>, <<Britomart>>, <<Devonport>>, <<Britomart, Devonport>>}

\* How the stops endpoint can answer an update: with a status and, on 200,
\* the directory; or not at all (asyncio.TimeoutError, aiohttp.ClientError).
UpdateResponses ==
    {[k |-> "answer", status_ok |-> ok, data |-> directory] : ok \in BOOLEAN}
    \cup {[k |-> "error", status_ok |-> FALSE, data |-> <<>>]}

async_update_data_unless_none(cached, response) ==
    IF cached.k = "list"
    THEN [stops_data |-> cached, requests |-> 0, raised |-> FALSE, returned |-> cached.v]
    ELSE IF response.k = "error"
    THEN [stops_data |-> cached, requests |-> 1, raised |-> TRUE, returned |-> <<>>]
    ELSE [stops_data |-> Fetched(fetch_stops_data(response)), requests |-> 1,
          raised |-> FALSE, returned |-> fetch_stops_data(response)]

\* AucklandTransportDataUpdateCoordinator._async_update_data: the held list
\* when it is truthy, else the list _fetch_stops_data returns, which it
\* stores; UpdateFailed when the request times out or fails in the client.
async_update_data(cached, response) ==
    IF cached.k = "list" /\ cached.v # <<>>
    THEN [stops_data |-> cached, requests |-> 0, raised |-> FALSE, returned |-> cached.v]
    ELSE IF response.k = "error"
    THEN [stops_data |-> cached, requests |-> 1, raised |-> TRUE, returned |-> <<>>]
    ELSE [stops_data |-> Fetched(fetch_stops_data(response)), requests |-> 1,
          raised |-> FALSE, returned |-> fetch_stops_data(response)]

DirectoryInit ==
    /\ now = At(1, 7, 0, 0)
    /\ PollIdle
    /\ gate = [m \in Monitors |-> GateUnset]
    /\ PipelineOff
    /\ SensorOff
    /\ ConfigOff
    /\ FlowOff
    /\ SwapOff
    /\ EnrichOff
    /\ CalcOff
    /\ directory \in DirectoryLists
    /\ stops_data = NotFetched
    /\ filtered_stops = NotCalled
    /\ stops_by_type = NotCalled
    /\ transport_type = NotCalled
    /\ update = NoUpdate

DirectoryUnchanged ==
    UNCHANGED <<now, poll_vars, gate, pipeline_vars, sensor_vars, config_vars, flow_vars,
                swap_vars, enrich, calc, filtered_stops, stops_by_type, transport_type>>

\* The coordinator's timer fires (or a refresh is asked for): one run of
\* _async_update_data.
UpdateStops ==
    /\ update.count < MaxUpdates
    /\ \E response \in UpdateResponses :
           LET res == async_update_data(stops_data, response)
           IN  /\ stops_data' = res.stops_data
               /\ update' = [made |-> TRUE, count |-> update.count + 1,
                             before |-> stops_data, requests |-> res.requests,
                             raised |-> res.raised, returned |-> res.returned]
    /\ UNCHANGED directory
    /\ DirectoryUnchanged

\* The directory the endpoint serves changes.
DirectoryChanges ==
    /\ \E stops \in DirectoryLists : stops # directory /\ directory' = stops
    /\ UNCHANGED <<stops_data, update>>
    /\ DirectoryUnchanged

DirectoryNext == UpdateStops \/ DirectoryChanges

DirectorySpec == DirectoryInit /\ [][DirectoryNext]_vars

\* The coordinator holds a non-empty stop list.
HoldsStops(cached) == cached.k = "list" /\ cached.v # <<>>

\* C30: once an update of the stop coordinator has fetched a non-empty stop
\* list, that list stays and every later update returns it without a request;
\* while the held list is absent or empty, every update sends a request to
\* the stops endpoint.
C30_StopListFetchedUntilNonEmpty ==
    /\ [](update.made =>
              IF HoldsStops(update.before)
              THEN /\ update.requests = 0
                   /\ ~update.raised
                   /\ update.returned = update.before.v
                   /\ stops_data = update.before
              ELSE update.requests = 1)
    /\ [][HoldsStops(stops_data) => stops_data' = stops_data]_vars

\* The third update returns, without a request, the list an earlier update
\* fetched, although the endpoint serves another directory by now.
C30_Witness ==
    /\ update.count = 3
    /\ HoldsStops(update.before)
    /\ update.requests = 0
    /\ update.returned = <<Britomart>>
    /\ directory = <<Britomart, Devonport>>

====
